---- MODULE Spec2Model ----
(***************************************************************************)
(* A model of the Discord DJ bot (src/src/bot.py) and of the playable      *)
(* handles its audio source produces (src/src/audio_sources.py).           *)
(*                                                                         *)
(* The four command handlers and DJBot.cleanup() are coroutines run by one *)
(* cooperative event loop: a handler runs without interruption from one    *)
(* await to the next, and other handlers may run while it is suspended.    *)
(* One action of the model is one such uninterrupted stretch of code.      *)
(* The step that sends a handler's last response records the whole         *)
(* command (what it found, what it called, what it sent) in the variable   *)
(* last; nothing but logging follows that send.                            *)
(*                                                                         *)
(* discord.py is not part of the repository.  Its calls are modelled by    *)
(* their documented effect, and the calls the claims speak about as        *)
(* failing (channel.connect(), create_discord_source(),                    *)
(* voice_client.play()) may raise nondeterministically.                    *)
(***************************************************************************)
EXTENDS Integers, Sequences, FiniteSets, TLC

\* ------------------------------------------------------------------ bounds
\* Handlers that may be in flight (suspended at an await) at the same time.
MaxTasks == 2
\* Voice clients that exist at the same time: connected, or still referred
\* to by the bot or by a handler in flight.
MaxClients == 2
\* Playable handles that hold an open resource at the same time.
MaxHandles == 2

Tasks == 1..MaxTasks
Clients == 1..MaxClients
Handles == 1..MaxHandles

\* self._voice_client is None
None == 0

\* Who invokes a command: not a discord.Member (a direct message), a member
\* with no voice state, a member whose voice state has no channel, a member
\* in a voice channel.
Authors == {"nonmember", "novoice", "nochannel", "inchannel"}

\* channel.name of the invoking member's voice channel
ChannelNames == {"General"}

\* The configured audio source: one of the FFmpeg-backed variants
\* (LocalAudioSource, IcecastAudioSource, URLAudioSource) or the
\* WASAPILoopbackAudioSource.
SourceKinds == {"ffmpeg", "loopback"}

VARIABLES
    voice_client,   \* DJBot._voice_client: None or the index of a voice client
    clients,        \* the voice clients channel.connect() has returned
    handles,        \* the playable handles create_discord_source() has made
                    \* (objects nothing refers to and that hold nothing are
                    \* not kept: their slot reads as unused)
    sourceKind,     \* the variant of DJBot._audio_source
    closed,         \* DJBot.close() has completed
    tasks,          \* the handlers in flight, each suspended at an await
    last            \* the record of the command the last step completed

botVars == <<voice_client, clients, handles, sourceKind, closed, tasks, last>>

\* The state of one IcecastStreamReader (src/src/stream_reader.py) and of
\* the HTTP objects it creates.
VARIABLES
    session,        \* IcecastStreamReader._session: None or a client session
    response,       \* IcecastStreamReader._response: None or a response
    is_connected,   \* IcecastStreamReader._is_connected
    http,           \* the client sessions created, each with the response
                    \* of the one GET issued on it
    rtasks,         \* the reader calls in flight, each suspended at an await
    rlast           \* the record of the reader call the last step completed

readerVars == <<session, response, is_connected, http, rtasks, rlast>>

\* The state of one WASAPILoopbackAudioSource and of the
\* WASAPILoopbackPCMAudio handles it creates (src/src/audio_sources.py).
VARIABLES
    device,         \* _device_sample_rate and _device_channels of the source
    pcm,            \* the handles created: capture stream, library context,
                    \* and the release calls made on them
    llast           \* the record of the call the last step made

loopVars == <<device, pcm, llast>>

\* The calls made on the AudioSourceFactory (src/src/audio_source_factory.py)
\* and what they were given.
VARIABLES
    config,         \* the configuration dictionary the calls pass
    attached,       \* what AudioDeviceEnumerator.enumerate_devices() gives
    created         \* per call: the source_type passed and what came back

factoryVars == <<config, attached, created>>

\* One call of AudioDeviceEnumerator.enumerate_devices()
\* (src/src/audio_device.py) and the machine it runs on.
VARIABLES
    host,           \* the platform, the capture library's device table and
                    \* what the probe tools do
    listing         \* what enumerate_devices() returned or raised

enumVars == <<host, listing>>

vars == <<botVars, readerVars, loopVars, factoryVars, enumVars>>

\* The bot's handlers do not touch a stream reader; the handles they play
\* are the variable handles.
BotFrame == UNCHANGED <<readerVars, loopVars, factoryVars, enumVars>>

\* The stream reader does not touch the bot or an audio source.
ReaderFrame == UNCHANGED <<botVars, loopVars, factoryVars, enumVars>>

\* The loopback source does not touch the bot or a stream reader.
LoopFrame == UNCHANGED <<botVars, readerVars, factoryVars, enumVars>>

\* The factory builds source objects; it does not touch the bot, a stream
\* reader or a playable handle.
FactoryFrame == UNCHANGED <<botVars, readerVars, loopVars, enumVars>>

\* The enumerator builds a list; it touches nothing else.
EnumFrame == UNCHANGED <<botVars, readerVars, loopVars, factoryVars>>

\* ---------------------------------------------------------------- messages
\* Responses are the literal strings of bot.py, split into words and
\* punctuation so that "contains" is computed, not assumed.
MsgServerOnly == <<"This", "command", "can", "only", "be", "used", "in", "a", "server", ".">>
MsgNeedVoice == <<"You", "need", "to", "be", "in", "a", "voice", "channel", "to", "use", "this", "command", ".">>
MsgNoChannel == <<"Could", "not", "determine", "your", "voice", "channel", ".">>
MsgAlreadyConnected == <<"Already", "connected", "to", "a", "voice", "channel", ".">>
MsgJoined(name) == <<"Joined", name>>
MsgJoinFailed == <<"Failed", "to", "join", "voice", "channel", ":", "<error>">>
MsgNotConnected == <<"Not", "connected", "to", "a", "voice", "channel", ".">>
MsgDisconnected == <<"Disconnected", "from", "voice", "channel">>
MsgAlreadyPlaying == <<"Already", "playing", "audio", ".">>
MsgNowStreaming(desc) == <<"Now", "streaming", ":">> \o desc
MsgStartFailed == <<"Failed", "to", "start", "streaming", ":", "<error>">>
MsgNotPlaying == <<"Not", "currently", "playing", "audio", ".">>
MsgStopped == <<"Stopped", "streaming">>

\* `fragment in message` of the tests: a contiguous run of the message
Contains(msg, frag) ==
    \E i \in 0..(Len(msg) - Len(frag)) :
        \A j \in 1..Len(frag) : msg[i + j] = frag[j]

\* get_description() of the configured source
GetDescription(kind) ==
    IF kind = "loopback"
    THEN <<"System", "Audio", ":", "<device>">>
    ELSE <<"Source", ":", "<name>">>

\* ----------------------------------------------------------- voice clients
\* `self._voice_client and self._voice_client.is_connected()`
IsConnected(vc, cl) == vc # None /\ cl[vc].connected

\* self._voice_client.is_playing(): the handle being played, 0 when none
PlayingOn(vc, cl) == IF vc = None THEN 0 ELSE cl[vc].playing

\* DJBot.is_streaming()
is_streaming(vc, cl) == vc # None /\ cl[vc].playing # 0

\* What a handler finds and leaves: the stored client, whether it is
\* connected, and the handle it plays.
Snap(vc, cl) ==
    [vc |-> vc, connected |-> IsConnected(vc, cl), playing |-> PlayingOn(vc, cl)]

\* ----------------------------------------------------------------- handles
\* WASAPILoopbackPCMAudio.cleanup() / FFmpegPCMAudio.cleanup(): the capture
\* stream (or transcoder process) is stopped and closed, the capture-library
\* context terminated.
HandleCleanup(h) ==
    [stream |-> IF h.stream = "open" THEN "closed" ELSE h.stream,
     ctx |-> IF h.ctx = "open" THEN "terminated" ELSE h.ctx]

\* A handle holds an open resource.
HandleOpen(h) == h.stream = "open" \/ h.ctx = "open"

\* No handle: a slot that holds nothing
FreeHandle == [stream |-> "none", ctx |-> "none"]

\* A handle after its cleanup() was called and the last reference to it
\* dropped: it is gone when the cleanup released what it held.
Dropped(h) == IF HandleOpen(HandleCleanup(h)) THEN HandleCleanup(h) ELSE FreeHandle

\* The player releases the handle it played when playback stops.
ReleaseHandle(hs, h) ==
    IF h = 0 THEN hs ELSE [hs EXCEPT ![h] = Dropped(hs[h])]

\* cleanup() of the audio source itself: every variant only logs.
SourceCleanup(hs) == hs

OpenHandles == {h \in Handles : HandleOpen(handles[h])}

\* The slot create_discord_source() puts its next handle in
FreeHandles == Handles \ OpenHandles

NewHandleSlot == CHOOSE h \in FreeHandles : \A g \in FreeHandles : h <= g

\* The outcomes of create_discord_source(): a handle; an error before
\* anything was opened; for the loopback source, an error of
\* pyaudio.open() after pyaudio.PyAudio() created the library context.
CreateOutcomes(kind) ==
    IF kind = "loopback" THEN {"ok", "raise", "raise_after_ctx"} ELSE {"ok", "raise"}

\* The object WASAPILoopbackPCMAudio.__init__ / FFmpegPCMAudio leaves behind
NewHandle(kind, outcome) ==
    IF kind = "loopback"
    THEN [stream |-> IF outcome = "ok" THEN "open" ELSE "none", ctx |-> "open"]
    ELSE [stream |-> "open", ctx |-> "none"]

\* ------------------------------------------------------------------- tasks
NoSnap == [vc |-> None, connected |-> FALSE, playing |-> 0]

IdleTask ==
    [pc |-> "idle", author |-> "nonmember", chan |-> "", pre |-> NoSnap,
     resp |-> <<>>, calls |-> <<>>, c |-> None]

NoCommand ==
    [cmd |-> "none", author |-> "nonmember", pre |-> NoSnap,
     resp |-> <<>>, calls |-> <<>>, outcome |-> "none", h |-> 0]

\* No voice client: a slot that holds nothing
FreeClient == [connected |-> FALSE, playing |-> 0]

\* The bot after DJBot.__init__
BotInit ==
    /\ voice_client = None
    /\ clients = [c \in Clients |-> FreeClient]
    /\ handles = [h \in Handles |-> FreeHandle]
    /\ sourceKind \in SourceKinds
    /\ closed = FALSE
    /\ tasks = [t \in Tasks |-> IdleTask]
    /\ last = NoCommand

\* The handler of task t returns after its last send: the command is
\* recorded, and the state this step reaches is the state the command
\* leaves.  Every other step clears the record.
Complete(t, cmd, author, pre, resp, calls, outcome, h) ==
    /\ tasks' = [tasks EXCEPT ![t] = IdleTask]
    /\ last' = [cmd |-> cmd, author |-> author, pre |-> pre,
                resp |-> resp, calls |-> calls, outcome |-> outcome, h |-> h]
    /\ BotFrame

\* The handler of task t suspends at an await.
Suspend(t, pc, author, chan, pre, resp, calls, c) ==
    /\ tasks' = [tasks EXCEPT ![t] =
                    [pc |-> pc, author |-> author, chan |-> chan, pre |-> pre,
                     resp |-> resp, calls |-> calls, c |-> c]]
    /\ last' = NoCommand
    /\ BotFrame

\* The voice clients the bot or a handler in flight refers to
ClientRefs ==
    {voice_client} \cup {tasks[t].c : t \in Tasks} \cup {tasks[t].pre.vc : t \in Tasks}

\* The slot channel.connect() puts its next voice client in
FreeClients == {c \in Clients : ~clients[c].connected /\ c \notin ClientRefs}

NewClientSlot == CHOOSE c \in FreeClients : \A d \in FreeClients : c <= d

\* VoiceClient.disconnect(): playback stops, the connection is closed.
Disconnected(cl, c) ==
    [cl EXCEPT ![c] = [connected |-> FALSE, playing |-> 0]]

\* ------------------------------------------------------------------- join
\* JoinGuard without the `if not ctx.author.voice` check
JoinGuard_VoiceUnchecked(author, connected) ==
    IF author = "nonmember" THEN "server_only"
    ELSE IF author = "nochannel" THEN "no_channel"
    ELSE IF connected THEN "already_connected"
    ELSE "connect"

\* JoinGuard without the already-connected check
JoinGuard_ConnectedUnchecked(author, connected) ==
    IF author = "nonmember" THEN "server_only"
    ELSE IF author = "novoice" THEN "need_voice"
    ELSE IF author = "nochannel" THEN "no_channel"
    ELSE "connect"

\* The checks of join before it connects (bot.py 80-95), in the code's order.
JoinGuard(author, connected) ==
    IF author = "nonmember" THEN "server_only"
    ELSE IF author = "novoice" THEN "need_voice"
    ELSE IF author = "nochannel" THEN "no_channel"
    ELSE IF connected THEN "already_connected"
    ELSE "connect"

\* The response of a refused join or auto-join
RefusalMsg(g) ==
    IF g = "server_only" THEN MsgServerOnly
    ELSE IF g = "need_voice" THEN MsgNeedVoice
    ELSE IF g = "no_channel" THEN MsgNoChannel
    ELSE MsgAlreadyConnected

\* join, from its start to its first await
JoinStart(t) ==
    /\ tasks[t].pc = "idle"
    /\ ~closed
    /\ \E author \in Authors, chan \in ChannelNames :
        LET pre == Snap(voice_client, clients)
            g == JoinGuard(author, IsConnected(voice_client, clients))
        IN  /\ UNCHANGED <<voice_client, clients, handles, sourceKind, closed>>
            /\ IF g = "connect"
               THEN Suspend(t, "join_connecting", author, chan, pre, <<>>, <<"connect">>, None)
               ELSE Complete(t, "join", author, pre, <<RefusalMsg(g)>>, <<>>, "refused", 0)

\* join, resumed when channel.connect() returns a voice client or raises
JoinResume(t) ==
    /\ tasks[t].pc = "join_connecting"
    /\ UNCHANGED <<handles, sourceKind, closed>>
    /\ \/ /\ FreeClients # {}
          /\ clients' = [clients EXCEPT ![NewClientSlot] = [connected |-> TRUE, playing |-> 0]]
          /\ voice_client' = NewClientSlot
          /\ Complete(t, "join", tasks[t].author, tasks[t].pre,
                      <<MsgJoined(tasks[t].chan)>>, tasks[t].calls, "ok", 0)
       \/ /\ UNCHANGED <<voice_client, clients>>
          /\ Complete(t, "join", tasks[t].author, tasks[t].pre,
                      <<MsgJoinFailed>>, tasks[t].calls, "join_failed", 0)

\* ------------------------------------------------------------------ leave
\* LeaveGuard without the is_connected() check
LeaveGuard_NoneOnly(vc, cl) ==
    IF vc = None THEN "not_connected" ELSE "disconnect"

\* `if not self._voice_client or not self._voice_client.is_connected()`
LeaveGuard(vc, cl) ==
    IF vc = None \/ ~cl[vc].connected THEN "not_connected" ELSE "disconnect"

\* leave, from its start to its first await.  disconnect() takes effect
\* somewhere between the call and its return: either at once or on return.
LeaveStart(t) ==
    /\ tasks[t].pc = "idle"
    /\ ~closed
    /\ UNCHANGED <<voice_client, sourceKind, closed>>
    /\ LET pre == Snap(voice_client, clients)
       IN  IF LeaveGuard(voice_client, clients) = "not_connected"
           THEN /\ UNCHANGED <<clients, handles>>
                /\ Complete(t, "leave", "any", pre, <<MsgNotConnected>>, <<>>, "refused", 0)
           ELSE /\ \E early \in BOOLEAN :
                    IF early
                    THEN /\ clients' = Disconnected(clients, voice_client)
                         /\ handles' = ReleaseHandle(handles, clients[voice_client].playing)
                    ELSE UNCHANGED <<clients, handles>>
                /\ Suspend(t, "leave_disconnecting", "any", "", pre, <<>>,
                           <<"disconnect">>, voice_client)

\* leave, resumed when disconnect() returns: the session handle is dropped
LeaveResume(t) ==
    /\ tasks[t].pc = "leave_disconnecting"
    /\ UNCHANGED <<sourceKind, closed>>
    /\ clients' = Disconnected(clients, tasks[t].c)
    /\ handles' = ReleaseHandle(handles, clients[tasks[t].c].playing)
    /\ voice_client' = None
    /\ Complete(t, "leave", tasks[t].author, tasks[t].pre,
                <<MsgDisconnected>>, tasks[t].calls, "ok", 0)

\* ------------------------------------------------------------------- stop
\* The checks of stop (bot.py 199-205)
StopGuard(vc, cl) ==
    IF vc = None THEN "not_connected"
    ELSE IF cl[vc].playing = 0 THEN "not_playing"
    ELSE "stop"

\* stop has no await before its last send: one step
Stop(t) ==
    /\ tasks[t].pc = "idle"
    /\ ~closed
    /\ UNCHANGED <<voice_client, sourceKind, closed>>
    /\ LET pre == Snap(voice_client, clients)
           g == StopGuard(voice_client, clients)
       IN  IF g = "stop"
           THEN /\ clients' = [clients EXCEPT ![voice_client].playing = 0]
                /\ handles' = ReleaseHandle(handles, clients[voice_client].playing)
                /\ Complete(t, "stop", "any", pre, <<MsgStopped>>, <<"stop">>, "ok", 0)
           ELSE /\ UNCHANGED <<clients, handles>>
                /\ Complete(t, "stop", "any", pre,
                            <<IF g = "not_connected" THEN MsgNotConnected ELSE MsgNotPlaying>>,
                            <<>>, "refused", 0)

\* ------------------------------------------------------------------- play
\* PlayJoinGuard without the `if not ctx.author.voice` check
PlayJoinGuard_VoiceUnchecked(author) ==
    IF author = "nonmember" THEN "server_only"
    ELSE IF author = "nochannel" THEN "no_channel"
    ELSE "connect"

\* The checks of play's auto-join (bot.py 142-153), in the code's order.
PlayJoinGuard(author) ==
    IF author = "nonmember" THEN "server_only"
    ELSE IF author = "novoice" THEN "need_voice"
    ELSE IF author = "nochannel" THEN "no_channel"
    ELSE "connect"

\* play without the is_playing() check
AlreadyPlaying_Unchecked(vc, cl) == FALSE

\* `if self._voice_client.is_playing()` (bot.py 165)
AlreadyPlaying(vc, cl) == cl[vc].playing # 0

\* voice_client.play() can start playback only on a connected client;
\* on any client it may raise.
PlayOutcomes(vc, cl) == IF cl[vc].connected THEN {"ok", "raise"} ELSE {"raise"}

\* play from line 165 to its last send, no await in between: the
\* is_playing() check, create_discord_source(), voice_client.play().
\* resp and calls are what the handler sent and called before.
PlayBody(t, author, pre, resp, calls) ==
    /\ UNCHANGED <<voice_client, sourceKind, closed>>
    /\ IF AlreadyPlaying(voice_client, clients)
       THEN /\ UNCHANGED <<clients, handles>>
            /\ Complete(t, "play", author, pre, Append(resp, MsgAlreadyPlaying),
                        calls, "refused", 0)
       ELSE \E made \in CreateOutcomes(sourceKind) :
            IF made = "raise" \/ FreeHandles = {}
            THEN /\ made = "raise"
                 /\ UNCHANGED <<clients, handles>>
                 /\ Complete(t, "play", author, pre, Append(resp, MsgStartFailed),
                             Append(calls, "create"), "create_failed", 0)
            ELSE LET h == NewHandleSlot
                     hs == [handles EXCEPT ![h] = NewHandle(sourceKind, made)]
                 IN  IF made = "raise_after_ctx"
                     THEN /\ handles' = hs
                          /\ UNCHANGED clients
                          /\ Complete(t, "play", author, pre, Append(resp, MsgStartFailed),
                                      Append(calls, "create"), "create_failed", h)
                     ELSE \E started \in PlayOutcomes(voice_client, clients) :
                          /\ handles' = hs
                          /\ IF started = "ok"
                             THEN /\ clients' = [clients EXCEPT ![voice_client].playing = h]
                                  /\ Complete(t, "play", author, pre,
                                              Append(resp, MsgNowStreaming(GetDescription(sourceKind))),
                                              calls \o <<"create", "play">>, "ok", h)
                             ELSE /\ UNCHANGED clients
                                  /\ Complete(t, "play", author, pre, Append(resp, MsgStartFailed),
                                              calls \o <<"create", "play">>, "play_failed", h)

\* play, from its start to its first await
PlayStart(t) ==
    /\ tasks[t].pc = "idle"
    /\ ~closed
    /\ \E author \in Authors, chan \in ChannelNames :
        LET pre == Snap(voice_client, clients)
            g == PlayJoinGuard(author)
        IN  IF IsConnected(voice_client, clients)
            THEN PlayBody(t, author, pre, <<>>, <<>>)
            ELSE /\ UNCHANGED <<voice_client, clients, handles, sourceKind, closed>>
                 /\ IF g = "connect"
                    THEN Suspend(t, "play_connecting", author, chan, pre, <<>>, <<"connect">>, None)
                    ELSE Complete(t, "play", author, pre, <<RefusalMsg(g)>>, <<>>, "refused", 0)

\* PlayConnectResume without the `return` after a failed connect
PlayConnectResume_NoReturn(t) ==
    /\ tasks[t].pc = "play_connecting"
    /\ IF voice_client = None
       THEN /\ UNCHANGED <<voice_client, clients, handles, sourceKind, closed>>
            /\ Complete(t, "play", tasks[t].author, tasks[t].pre,
                        <<MsgJoinFailed>>, tasks[t].calls, "error", 0)
       ELSE PlayBody(t, tasks[t].author, tasks[t].pre, <<MsgJoinFailed>>, tasks[t].calls)

\* play, resumed when channel.connect() returns a voice client or raises;
\* it stores the client and suspends again at `await ctx.send("Joined ...")`
PlayConnectResume(t) ==
    /\ tasks[t].pc = "play_connecting"
    /\ UNCHANGED <<handles, sourceKind, closed>>
    /\ \/ /\ FreeClients # {}
          /\ clients' = [clients EXCEPT ![NewClientSlot] = [connected |-> TRUE, playing |-> 0]]
          /\ voice_client' = NewClientSlot
          /\ Suspend(t, "play_joined", tasks[t].author, tasks[t].chan, tasks[t].pre,
                     <<MsgJoined(tasks[t].chan)>>, tasks[t].calls, None)
       \/ /\ UNCHANGED <<voice_client, clients>>
          /\ Complete(t, "play", tasks[t].author, tasks[t].pre,
                      <<MsgJoinFailed>>, tasks[t].calls, "join_failed", 0)

\* play, resumed after the "Joined" message was sent.  Line 165 reads
\* self._voice_client again: when it is None by now, is_playing() raises
\* AttributeError outside the try block and the command ends without a
\* further response.
PlayJoinedResume(t) ==
    /\ tasks[t].pc = "play_joined"
    /\ IF voice_client = None
       THEN /\ UNCHANGED <<voice_client, clients, handles, sourceKind, closed>>
            /\ Complete(t, "play", tasks[t].author, tasks[t].pre, tasks[t].resp,
                        tasks[t].calls, "error", 0)
       ELSE PlayBody(t, tasks[t].author, tasks[t].pre, tasks[t].resp, tasks[t].calls)

\* ---------------------------------------------------------------- cleanup
\* cleanup() testing only that a voice client is stored
CleanupDisconnects_NoneOnly(vc, cl) == vc # None

\* `if self._voice_client and self._voice_client.is_connected()` (bot.py 217)
CleanupDisconnects(vc, cl) == IsConnected(vc, cl)

\* What cleanup() calls after the disconnect, in order (bot.py 221-223)
CleanupTail == <<"source.cleanup", "close">>

\* DJBot.cleanup(), from its start to its first await
CleanupStart(t) ==
    /\ tasks[t].pc = "idle"
    /\ ~closed
    /\ UNCHANGED <<voice_client, sourceKind, closed>>
    /\ LET pre == Snap(voice_client, clients)
       IN  IF CleanupDisconnects(voice_client, clients)
           THEN /\ \E early \in BOOLEAN :
                    IF early
                    THEN /\ clients' = Disconnected(clients, voice_client)
                         /\ handles' = ReleaseHandle(handles, clients[voice_client].playing)
                    ELSE UNCHANGED <<clients, handles>>
                /\ Suspend(t, "cleanup_disconnecting", "any", "", pre, <<>>,
                           <<"disconnect">>, voice_client)
           ELSE /\ UNCHANGED clients
                /\ handles' = SourceCleanup(handles)
                /\ Suspend(t, "cleanup_closing", "any", "", pre, <<>>, CleanupTail, None)

\* cleanup(), resumed when disconnect() returns: the source's cleanup()
\* is called and close() awaited
CleanupDisconnected(t) ==
    /\ tasks[t].pc = "cleanup_disconnecting"
    /\ UNCHANGED <<voice_client, sourceKind, closed>>
    /\ clients' = Disconnected(clients, tasks[t].c)
    /\ handles' = SourceCleanup(ReleaseHandle(handles, clients[tasks[t].c].playing))
    /\ Suspend(t, "cleanup_closing", tasks[t].author, "", tasks[t].pre, <<>>,
               tasks[t].calls \o CleanupTail, None)

\* cleanup(), resumed when close() returns
CleanupClosed(t) ==
    /\ tasks[t].pc = "cleanup_closing"
    /\ UNCHANGED <<voice_client, clients, handles, sourceKind>>
    /\ closed' = TRUE
    /\ Complete(t, "cleanup", tasks[t].author, tasks[t].pre, <<>>, tasks[t].calls, "ok", 0)

\* ------------------------------------------------------------ environment
\* Playback of client c ends on its own (the handle is exhausted or
\* fails); the player calls the handle's cleanup().
PlaybackEnds(c) ==
    /\ clients[c].playing # 0
    /\ clients' = [clients EXCEPT ![c].playing = 0]
    /\ handles' = ReleaseHandle(handles, clients[c].playing)
    /\ last' = NoCommand
    /\ BotFrame
    /\ UNCHANGED <<voice_client, sourceKind, closed, tasks>>

\* The voice connection of client c is lost (the bot is removed from the
\* channel): the library disconnects the client, the bot is not told.
ConnectionLost(c) ==
    /\ clients[c].connected
    /\ clients' = Disconnected(clients, c)
    /\ handles' = ReleaseHandle(handles, clients[c].playing)
    /\ last' = NoCommand
    /\ BotFrame
    /\ UNCHANGED <<voice_client, sourceKind, closed, tasks>>

\* A handle nothing refers to any more is finalized at a time the runtime
\* chooses: discord.AudioSource.__del__ calls its cleanup().
Finalize(h) ==
    /\ HandleOpen(handles[h])
    /\ \A c \in Clients : clients[c].playing # h
    /\ handles' = [handles EXCEPT ![h] = Dropped(handles[h])]
    /\ last' = NoCommand
    /\ BotFrame
    /\ UNCHANGED <<voice_client, clients, sourceKind, closed, tasks>>

Environment ==
    \/ \E c \in Clients : PlaybackEnds(c)
    \/ \E c \in Clients : ConnectionLost(c)
    \/ \E h \in Handles : Finalize(h)

\* ============================================================ stream reader
\* IcecastStreamReader (src/src/stream_reader.py).  connect(), close() and
\* read_stream() are coroutines of the same event loop: connect() suspends
\* at the GET, close() at session.close(), read_stream() at every chunk.

\* Reader calls that may be in flight at the same time.
MaxCalls == 2
\* Client sessions that exist at the same time: open, or still referred to.
MaxSessions == 2
\* Chunks one read_stream() iteration yields before the model stops it.
MaxChunks == 2

\* The contents of a chunk of the response body
ChunkData == {"a", "b"}

Calls == 1..MaxCalls
Sessions == 1..MaxSessions

\* No client session: a slot that holds nothing
NoHttp == [session |-> "none", response |-> "none"]

\* What a call finds and leaves: the reader's three fields
ReaderSnap(s, r, c) == [session |-> s, response |-> r, is_connected |-> c]

IdleCall ==
    [pc |-> "idle", call |-> "none", pre |-> ReaderSnap(None, None, FALSE),
     calls |-> <<>>, s |-> None, outcome |-> "none", chunks |-> <<>>,
     cancel |-> FALSE]

NoCall ==
    [call |-> "none", pre |-> ReaderSnap(None, None, FALSE), calls |-> <<>>,
     outcome |-> "none", chunks |-> <<>>, cancelled |-> FALSE, s |-> None]

\* The reader after IcecastStreamReader.__init__
ReaderInit ==
    /\ session = None
    /\ response = None
    /\ is_connected = FALSE
    /\ http = [s \in Sessions |-> NoHttp]
    /\ rtasks = [t \in Calls |-> IdleCall]
    /\ rlast = NoCall

\* The call of task t returns or raises: it is recorded (with the session
\* it created or was closing), and the state this step reaches is the state
\* the call leaves.  Every other step clears the record.
RComplete(t, call, pre, calls, outcome, chunks, cancelled) ==
    /\ rtasks' = [rtasks EXCEPT ![t] = IdleCall]
    /\ rlast' = [call |-> call, pre |-> pre, calls |-> calls,
                 outcome |-> outcome, chunks |-> chunks, cancelled |-> cancelled,
                 s |-> rtasks[t].s]
    /\ ReaderFrame

\* The call of task t suspends at an await.
RSuspend(t, pc, call, pre, calls, s, outcome, chunks, cancel) ==
    /\ rtasks' = [rtasks EXCEPT ![t] =
                    [pc |-> pc, call |-> call, pre |-> pre, calls |-> calls,
                     s |-> s, outcome |-> outcome, chunks |-> chunks,
                     cancel |-> cancel]]
    /\ rlast' = NoCall
    /\ ReaderFrame

\* The client sessions the reader or a call in flight refers to
SessionRefs ==
    {session, response}
        \cup {rtasks[t].s : t \in Calls}
        \cup {rtasks[t].pre.session : t \in Calls}
        \cup {rtasks[t].pre.response : t \in Calls}

\* The slot aiohttp.ClientSession() puts its next session in: closed
\* objects nothing refers to are gone.
FreeSessions ==
    {s \in Sessions : /\ http[s].session # "open"
                      /\ http[s].response # "open"
                      /\ s \notin SessionRefs}

NewSessionSlot == CHOOSE s \in FreeSessions : \A u \in FreeSessions : s <= u

\* ClientSession.close(): the session and the connection of its response
\* are closed, before the call first suspends.
SessionClosed(ht, s) ==
    [ht EXCEPT ![s] = [session |-> "closed",
                       response |-> IF @.response = "none" THEN "none" ELSE "closed"]]

\* ClientResponse.close()
ResponseClosed(ht, r) == [ht EXCEPT ![r].response = "closed"]

\* ------------------------------------------------------------------ close
\* CloseBody that keeps the response it closed
CloseBody_KeepsResponse(t, call, pre, calls, outcome, resp, ht) ==
    /\ is_connected' = FALSE
    /\ response' = resp
    /\ UNCHANGED session
    /\ LET ht1 == IF resp # None THEN ResponseClosed(ht, resp) ELSE ht
           calls1 == IF resp # None THEN Append(calls, "response.close") ELSE calls
       IN  /\ http' = (IF session # None THEN SessionClosed(ht1, session) ELSE ht1)
           /\ IF session # None
              THEN RSuspend(t, "closing", call, pre, Append(calls1, "session.close"),
                            session, outcome, <<>>, FALSE)
              ELSE RComplete(t, call, pre, calls1, outcome, <<>>, FALSE)

\* The body of close() (stream_reader.py 124-132) up to its await, run by
\* close() itself and by connect() when its attempt failed.  resp and ht
\* are self._response and the HTTP objects as the caller leaves them.
CloseBody(t, call, pre, calls, outcome, resp, ht) ==
    /\ is_connected' = FALSE
    /\ response' = None
    /\ UNCHANGED session
    /\ LET ht1 == IF resp # None THEN ResponseClosed(ht, resp) ELSE ht
           calls1 == IF resp # None THEN Append(calls, "response.close") ELSE calls
       IN  /\ http' = (IF session # None THEN SessionClosed(ht1, session) ELSE ht1)
           /\ IF session # None
              THEN RSuspend(t, "closing", call, pre, Append(calls1, "session.close"),
                            session, outcome, <<>>, FALSE)
              ELSE RComplete(t, call, pre, calls1, outcome, <<>>, FALSE)

\* close(), from its start to its await
CloseStart(t) ==
    /\ rtasks[t].pc = "idle"
    /\ CloseBody(t, "close", ReaderSnap(session, response, is_connected), <<>>,
                 "ok", response, http)

\* CloseResume without `self._session = None`
CloseResume_KeepsSession(t) ==
    /\ rtasks[t].pc = "closing"
    /\ ~rtasks[t].cancel
    /\ UNCHANGED <<session, response, is_connected, http>>
    /\ RComplete(t, rtasks[t].call, rtasks[t].pre, rtasks[t].calls,
                 rtasks[t].outcome, <<>>, FALSE)

\* close() resumed when session.close() returns: the session is dropped.
\* A failed connect() re-raises its error here.
CloseResume(t) ==
    /\ rtasks[t].pc = "closing"
    /\ ~rtasks[t].cancel
    /\ session' = None
    /\ UNCHANGED <<response, is_connected, http>>
    /\ RComplete(t, rtasks[t].call, rtasks[t].pre, rtasks[t].calls,
                 rtasks[t].outcome, <<>>, FALSE)

\* ---------------------------------------------------------------- connect
\* ConnectGuard without the `if self._is_connected` check
ConnectGuard_Unchecked(c) == "connect"

\* `if self._is_connected: return` (stream_reader.py 69-71)
ConnectGuard(c) == IF c THEN "already" ELSE "connect"

\* The outcomes of `await self._session.get(...)` followed by
\* raise_for_status(): a response with a good status, a response with an
\* error status, an error with no response.  A closed session only raises.
GetOutcomes(ht, s) ==
    IF ht[s].session = "open" THEN {"ok", "status_error", "raise"} ELSE {"raise"}

\* connect(), from its start to the GET
ConnectStart(t) ==
    /\ rtasks[t].pc = "idle"
    /\ LET pre == ReaderSnap(session, response, is_connected)
       IN  IF ConnectGuard(is_connected) = "already"
           THEN /\ UNCHANGED <<session, response, is_connected, http>>
                /\ RComplete(t, "connect", pre, <<>>, "already", <<>>, FALSE)
           ELSE /\ FreeSessions # {}
                /\ session' = NewSessionSlot
                /\ http' = [http EXCEPT ![NewSessionSlot] =
                                [session |-> "open", response |-> "none"]]
                /\ UNCHANGED <<response, is_connected>>
                /\ RSuspend(t, "connect_get", "connect", pre, <<"ClientSession", "get">>,
                            NewSessionSlot, "none", <<>>, FALSE)

\* ConnectFailed without the `await self.close()` of the except branch
ConnectFailed_NoClose(t, got) ==
    /\ UNCHANGED <<session, is_connected>>
    /\ response' = (IF got = "status_error" THEN rtasks[t].s ELSE response)
    /\ http' = (IF got = "status_error"
                THEN [http EXCEPT ![rtasks[t].s].response = "open"]
                ELSE http)
    /\ RComplete(t, "connect", rtasks[t].pre, rtasks[t].calls, got, <<>>, FALSE)

\* The except branch of connect() (stream_reader.py 87-90): close(), then
\* the error is raised again.  An error status leaves the response it came
\* with in self._response.
ConnectFailed(t, got) ==
    CloseBody(t, "connect", rtasks[t].pre, rtasks[t].calls, got,
              IF got = "status_error" THEN rtasks[t].s ELSE response,
              IF got = "status_error"
              THEN [http EXCEPT ![rtasks[t].s].response = "open"]
              ELSE http)

\* connect() resumed when the GET returns or raises
ConnectResume(t) ==
    /\ rtasks[t].pc = "connect_get"
    /\ ~rtasks[t].cancel
    /\ \E got \in GetOutcomes(http, rtasks[t].s) :
        IF got = "ok"
        THEN /\ response' = rtasks[t].s
             /\ http' = [http EXCEPT ![rtasks[t].s].response = "open"]
             /\ is_connected' = TRUE
             /\ UNCHANGED session
             /\ RComplete(t, "connect", rtasks[t].pre, rtasks[t].calls, "ok", <<>>, FALSE)
        ELSE ConnectFailed(t, got)

\* ------------------------------------------------------------ read_stream
\* ReadGuard without the not-connected check
ReadGuard_Unchecked(c, r) == "read"

\* `if not self._is_connected or not self._response` (stream_reader.py 104)
ReadGuard(c, r) == IF ~c \/ r = None THEN "not_connected" ELSE "read"

\* What the next `async for` step over iter_chunked() brings: a chunk, an
\* empty chunk, the end of the body, an error.  A body that has ended stays
\* ended, one that failed keeps failing, a closed response brings no more
\* data; without a response the attribute access raises.
ChunkOutcomes(ht, r) ==
    CASE r = None -> {"error"}
      [] ht[r].response = "open" -> {"data", "empty", "eof", "error"}
      [] ht[r].response = "eof" -> {"eof"}
      [] ht[r].response = "failed" -> {"error"}
      [] OTHER -> {"eof", "error"}

\* The response body after the iteration met its end or an error
BodyEnded(ht, r, got) ==
    IF r # None /\ ht[r].response = "open"
    THEN [ht EXCEPT ![r].response = IF got = "eof" THEN "eof" ELSE "failed"]
    ELSE ht

\* The handlers swallowing a cancellation: the iteration just ends
OnReadException_Swallowed(exc) == "eof"

\* The except branches of read_stream() (stream_reader.py 113-118): both
\* log and raise the exception again.
OnReadException(exc) == exc

\* The first step of iterating read_stream(): the check, then the
\* iteration is suspended waiting for the first chunk.
ReadStart(t) ==
    /\ rtasks[t].pc = "idle"
    /\ UNCHANGED <<session, response, is_connected, http>>
    /\ LET pre == ReaderSnap(session, response, is_connected)
       IN  IF ReadGuard(is_connected, response) = "not_connected"
           THEN RComplete(t, "read_stream", pre, <<>>, "RuntimeError", <<>>, FALSE)
           ELSE RSuspend(t, "reading", "read_stream", pre, <<"iter_chunked">>,
                         response, "none", <<>>, FALSE)

\* The iteration resumed by the response body.  Empty chunks are not
\* yielded (`if chunk`).
ReadNext(t) ==
    /\ rtasks[t].pc = "reading"
    /\ ~rtasks[t].cancel
    /\ UNCHANGED <<session, response, is_connected>>
    /\ \E got \in ChunkOutcomes(http, rtasks[t].s) :
        CASE got = "data" ->
                /\ Len(rtasks[t].chunks) < MaxChunks
                /\ UNCHANGED http
                /\ \E d \in ChunkData :
                    RSuspend(t, "reading", "read_stream", rtasks[t].pre, rtasks[t].calls,
                             rtasks[t].s, "none", Append(rtasks[t].chunks, d), FALSE)
          [] got = "empty" ->
                /\ UNCHANGED http
                /\ RSuspend(t, "reading", "read_stream", rtasks[t].pre, rtasks[t].calls,
                            rtasks[t].s, "none", rtasks[t].chunks, FALSE)
          [] got = "eof" ->
                /\ http' = BodyEnded(http, rtasks[t].s, got)
                /\ RComplete(t, "read_stream", rtasks[t].pre, rtasks[t].calls, "eof",
                             rtasks[t].chunks, FALSE)
          [] got = "error" ->
                /\ http' = BodyEnded(http, rtasks[t].s, got)
                /\ RComplete(t, "read_stream", rtasks[t].pre, rtasks[t].calls,
                             OnReadException("error"), rtasks[t].chunks, FALSE)

\* The task running a reader call is cancelled from outside while the call
\* is suspended at its await.
Cancel(t) ==
    /\ rtasks[t].pc # "idle"
    /\ ~rtasks[t].cancel
    /\ rtasks' = [rtasks EXCEPT ![t].cancel = TRUE]
    /\ rlast' = NoCall
    /\ UNCHANGED <<session, response, is_connected, http>>
    /\ ReaderFrame

\* The event loop resumes a cancelled connect(): CancelledError is thrown
\* at the GET.  It is not an Exception, so the except branch of connect()
\* does not run and nothing is closed.
ConnectCancelled(t) ==
    /\ rtasks[t].pc = "connect_get"
    /\ rtasks[t].cancel
    /\ UNCHANGED <<session, response, is_connected, http>>
    /\ RComplete(t, "connect", rtasks[t].pre, rtasks[t].calls, "CancelledError",
                 <<>>, TRUE)

\* The event loop resumes a cancelled close(): CancelledError is thrown at
\* session.close(), the session is not dropped.
CloseCancelled(t) ==
    /\ rtasks[t].pc = "closing"
    /\ rtasks[t].cancel
    /\ UNCHANGED <<session, response, is_connected, http>>
    /\ RComplete(t, rtasks[t].call, rtasks[t].pre, rtasks[t].calls, "CancelledError",
                 <<>>, TRUE)

\* The event loop resumes a cancelled read_stream() iteration:
\* CancelledError is thrown into it at its await.
ReadCancelled(t) ==
    /\ rtasks[t].pc = "reading"
    /\ rtasks[t].cancel
    /\ UNCHANGED <<session, response, is_connected, http>>
    /\ RComplete(t, "read_stream", rtasks[t].pre, rtasks[t].calls,
                 OnReadException("CancelledError"), rtasks[t].chunks, TRUE)

\* ========================================================= loopback source
\* WASAPILoopbackAudioSource and WASAPILoopbackPCMAudio
\* (src/src/audio_sources.py 300-461).  Their methods are synchronous: one
\* action is one call.

\* Handles of one loopback source that exist at the same time.
MaxPcm == 2
\* cleanup() calls on one handle.
MaxCleanups == 2

Pcms == 1..MaxPcm

\* defaultSampleRate and maxInputChannels of the probed device
DeviceRates == {44100, 48000, 96000}
DeviceChannels == {1, 2, 6}

\* What Discord plays: 48 kHz, 16-bit, stereo, 20 ms a frame
DiscordRate == 48000
SampleWidth == 2
FrameBytes == 3840

\* No handle: a slot that holds nothing
NoPcm == [stream |-> "none", ctx |-> "none", cleanups |-> 0, stops |-> 0, terminates |-> 0]

NoLoopCall == [op |-> "none", h |-> 0, outcome |-> "none", bytes |-> 0]

\* The source after WASAPILoopbackAudioSource.__init__: the probed sample
\* rate and channel count, or 48000 and 2 when the probe raised.
LoopInit ==
    /\ device \in [rate : DeviceRates, channels : DeviceChannels]
    /\ pcm = [h \in Pcms |-> NoPcm]
    /\ llast = NoLoopCall

\* A source nothing calls
LoopIdle ==
    /\ device = [rate |-> DiscordRate, channels |-> 2]
    /\ pcm = [h \in Pcms |-> NoPcm]
    /\ llast = NoLoopCall

FreePcms == {h \in Pcms : pcm[h] = NoPcm}

NewPcmSlot == CHOOSE h \in FreePcms : \A g \in FreePcms : h <= g

\* create_discord_source() of the loopback source: the handle's __init__
\* creates the library context, then opens the capture stream.
LoopCreate ==
    /\ FreePcms # {}
    /\ UNCHANGED device
    /\ LoopFrame
    /\ \E made \in CreateOutcomes("loopback") :
        /\ pcm' = IF made = "raise" THEN pcm
                  ELSE [pcm EXCEPT ![NewPcmSlot] =
                           [NoPcm EXCEPT !.stream = IF made = "ok" THEN "active" ELSE "none",
                                         !.ctx = NewHandle("loopback", made).ctx]]
        /\ llast' = [op |-> "create", h |-> IF made = "raise" THEN 0 ELSE NewPcmSlot,
                     outcome |-> IF made = "ok" THEN "ok" ELSE "RuntimeError", bytes |-> 0]

\* What stop_stream() does on a stream that was closed before: the library
\* raises, or lets it pass.
StopOutcomes(stream) == IF stream = "closed" THEN {"raise", "ok"} ELSE {"ok"}

\* WASAPILoopbackPCMAudio.cleanup() (audio_sources.py 375-383), called by
\* the player, by the owner or by the finalizer.  _stream and _pyaudio are
\* never reset, so every call stops, closes and terminates again.
PcmCleanup(h) ==
    /\ pcm[h].ctx # "none"
    /\ pcm[h].cleanups < MaxCleanups
    /\ UNCHANGED device
    /\ LoopFrame
    /\ \E stopped \in StopOutcomes(pcm[h].stream) :
        IF pcm[h].stream # "none" /\ stopped = "raise"
        THEN /\ pcm' = [pcm EXCEPT ![h].cleanups = @ + 1, ![h].stops = @ + 1]
             /\ llast' = [op |-> "cleanup", h |-> h, outcome |-> "OSError", bytes |-> 0]
        ELSE /\ pcm' = [pcm EXCEPT
                          ![h].cleanups = @ + 1,
                          ![h].stops = IF pcm[h].stream # "none" THEN @ + 1 ELSE @,
                          ![h].stream = IF pcm[h].stream # "none" THEN "closed" ELSE @,
                          ![h].terminates = @ + 1,
                          ![h].ctx = "terminated"]
             /\ llast' = [op |-> "cleanup", h |-> h, outcome |-> "ok", bytes |-> 0]

\* WASAPILoopbackAudioSource.cleanup() (audio_sources.py 459-461): a log
\* line.  The source keeps no reference to the handles it created.
LoopSourceCleanup ==
    /\ pcm' = SourceCleanup(pcm)
    /\ llast' = [op |-> "source.cleanup", h |-> 0, outcome |-> "ok", bytes |-> 0]
    /\ UNCHANGED device
    /\ LoopFrame

\* ------------------------------------------------------------------- read
\* `int(self._sample_rate * 0.02)`: the frames of 20 ms at the device rate
FramesNeeded(rate) == (rate * 2) \div 100

\* The frames audioop.ratecv() returns for n input frames when it is given
\* no state, as read() gives it none: one output frame for the first input
\* frame, then one for every inrate/outrate input frames.
RatecvFrames(n, inrate, outrate) ==
    IF n = 0 THEN 0 ELSE ((n - 1) * outrate) \div inrate + 1

\* The bytes read() returns when the capture stream delivers a buffer:
\* resampled unless the device runs at 48 kHz, made stereo when the device
\* is mono, handed on as captured otherwise (audio_sources.py 349-369).
ReadBytes(rate, channels) ==
    LET captured == FramesNeeded(rate)
        frames == IF rate # DiscordRate
                  THEN RatecvFrames(captured, rate, DiscordRate)
                  ELSE captured
    IN  frames * SampleWidth * (IF channels = 1 THEN 2 ELSE channels)

\* What the capture stream does for a read(): a closed or inactive stream
\* gives nothing, an active one a buffer or an error.
CaptureOutcomes(stream) == IF stream = "active" THEN {"data", "raise"} ELSE {"none"}

\* WASAPILoopbackPCMAudio.read() (audio_sources.py 335-373), called by the
\* player on a handle create_discord_source() returned.  Every exception
\* is caught and answered with empty bytes.
PcmRead(h) ==
    /\ pcm[h].stream # "none"
    /\ UNCHANGED <<device, pcm>>
    /\ LoopFrame
    /\ \E got \in CaptureOutcomes(pcm[h].stream) :
        llast' = [op |-> "read", h |-> h, outcome |-> "ok",
                  bytes |-> IF got = "data"
                            THEN ReadBytes(device.rate, device.channels)
                            ELSE 0]

\* The capture stream of handle h stops delivering (the device went away).
StreamStops(h) ==
    /\ pcm[h].stream = "active"
    /\ pcm' = [pcm EXCEPT ![h].stream = "inactive"]
    /\ llast' = NoLoopCall
    /\ UNCHANGED device
    /\ LoopFrame

\* ================================================ the audio source factory
\* AudioSourceFactory (src/src/audio_source_factory.py) and the source
\* classes it constructs (src/src/audio_sources.py).  Its methods are
\* synchronous and keep no state: a call is one step.  The strings the code
\* inspects or assembles are sequences of characters, so that lower(),
\* startswith(), split(), int(), replace() and the f-strings are computed.

\* ------------------------------------------------------------------ bounds
\* Calls of create_from_config whose results are kept for comparison.
MaxFactoryCalls == 2
\* Devices one enumeration lists.
MaxDevices == 2

FactoryCalls == 1..MaxFactoryCalls

\* ----------------------------------------------------------------- strings
UpperLetters == <<"A", "B", "C", "D", "E", "F", "G", "H", "I", "J", "K", "L", "M", "N", "O", "P", "Q", "R", "S", "T", "U", "V", "W", "X", "Y", "Z">>
LowerLetters == <<"a", "b", "c", "d", "e", "f", "g", "h", "i", "j", "k", "l", "m", "n", "o", "p", "q", "r", "s", "t", "u", "v", "w", "x", "y", "z">>
Digits == <<"0", "1", "2", "3", "4", "5", "6", "7", "8", "9">>

\* The position of character c in the sequence s, 0 when it is not there
IndexOf(s, c) ==
    IF \E i \in 1..Len(s) : s[i] = c
    THEN CHOOSE i \in 1..Len(s) : s[i] = c /\ \A j \in 1..(i - 1) : s[j] # c
    ELSE 0

\* str.lower() and str.upper() on one character
LowerChar(c) ==
    IF IndexOf(UpperLetters, c) # 0 THEN LowerLetters[IndexOf(UpperLetters, c)] ELSE c

UpperChar(c) ==
    IF IndexOf(LowerLetters, c) # 0 THEN UpperLetters[IndexOf(LowerLetters, c)] ELSE c

\* A create_from_config that compares the tag as it was passed
Lower_AsPassed(s) == s

\* str.lower()
Lower(s) == [i \in 1..Len(s) |-> LowerChar(s[i])]

\* str.upper()
Upper(s) == [i \in 1..Len(s) |-> UpperChar(s[i])]

\* str.capitalize()
Capitalize(s) ==
    [i \in 1..Len(s) |-> IF i = 1 THEN UpperChar(s[i]) ELSE LowerChar(s[i])]

\* str.startswith()
StartsWith(s, prefix) ==
    /\ Len(prefix) <= Len(s)
    /\ SubSeq(s, 1, Len(prefix)) = prefix

\* str.split(sep) for a separator of one character
RECURSIVE Split(_, _)
Split(s, sep) ==
    IF IndexOf(s, sep) = 0
    THEN <<s>>
    ELSE <<SubSeq(s, 1, IndexOf(s, sep) - 1)>>
             \o Split(SubSeq(s, IndexOf(s, sep) + 1, Len(s)), sep)

\* str.replace(old, "")
RECURSIVE Remove(_, _)
Remove(s, old) ==
    IF Len(s) = 0 \/ Len(old) = 0 THEN s
    ELSE IF StartsWith(s, old)
    THEN Remove(SubSeq(s, Len(old) + 1, Len(s)), old)
    ELSE <<s[1]>> \o Remove(SubSeq(s, 2, Len(s)), old)

\* int() accepts a non-empty run of decimal digits
IsDecimal(s) ==
    /\ Len(s) > 0
    /\ \A i \in 1..Len(s) : IndexOf(Digits, s[i]) # 0

\* An int() that reads the last digit only
ParseInt_LastDigit(s) == IndexOf(Digits, s[Len(s)]) - 1

\* int() of a run of decimal digits
RECURSIVE ParseInt(_)
ParseInt(s) ==
    IF Len(s) = 0 THEN 0
    ELSE ParseInt(SubSeq(s, 1, Len(s) - 1)) * 10 + (IndexOf(Digits, s[Len(s)]) - 1)

\* f"{n}" of a non-negative integer
RECURSIVE FormatInt(_)
FormatInt(n) ==
    IF n < 10 THEN <<Digits[n + 1]>>
    ELSE FormatInt(n \div 10) \o <<Digits[(n % 10) + 1]>>

\* ------------------------------------------------------------------ inputs
\* The source_type values passed: the three tags the factory knows and
\* three it does not, each in lower case, in upper case and capitalized.
TagWords == {<<"l", "o", "c", "a", "l">>, <<"i", "c", "e", "c", "a", "s", "t">>, <<"u", "r", "l">>, <<>>, <<"m", "p", "3">>, <<"u", "r", "l", "s">>}

Tags == UNION {{w, Upper(w), Capitalize(w)} : w \in TagWords}

\* The "url" values a config holds
Urls == {<<>>, <<"h", ":", "/", "/", "a">>}

\* The "device_index" values a config holds
Indexes == 0..MaxDevices

\* dict.get(key): the empty set is None (the key is absent), {v} is v
IsNone(x) == x = {}

Value(x) == CHOOSE v \in x : TRUE

\* The config dictionaries passed.  "sample_rate" and "bitrate" are stored
\* in the source and in no way inspected by the factory.
Configs ==
    [url : {{}} \cup {{u} : u \in Urls},
     device_index : {{}} \cup {{i} : i \in Indexes}]

EmptyConfig == [url |-> {}, device_index |-> {}]

\* What the platform can list: name and device_id as
\* AudioDeviceEnumerator builds them (src/src/audio_device.py 86-93 and
\* 127-139).
DevicePool ==
    {[name |-> <<"S", "p", "k", " ", "[", "S", "y", "s", "t", "e", "m", " ", "A", "u", "d", "i", "o", " ", "O", "u", "t", "p", "u", "t", "]">>, device_id |-> <<"w", "a", "s", "a", "p", "i", ":", "3">>],
     [name |-> <<"H", "d", "m", "i", " ", "[", "S", "y", "s", "t", "e", "m", " ", "A", "u", "d", "i", "o", " ", "O", "u", "t", "p", "u", "t", "]">>, device_id |-> <<"w", "a", "s", "a", "p", "i", ":", "1", "2">>],
     [name |-> <<"M", "i", "c", " ", "[", "M", "i", "c", "r", "o", "p", "h", "o", "n", "e", "]">>, device_id |-> <<"d", "s", "h", "o", "w", ":", "a", "u", "d", "i", "o", "=", "M", "i", "c">>]}

\* AudioDevice(index=device_index, ...) with device_index counting from 1
AudioDevices(listed) ==
    [i \in 1..Len(listed) |->
        [index |-> i, name |-> listed[i].name, device_id |-> listed[i].device_id]]

\* What enumerate_devices() can give: a list of distinct devices, or
\* RuntimeError when FFmpeg is missing.
Enumerations ==
    {[ok |-> FALSE, devices |-> <<>>]}
    \cup {[ok |-> TRUE, devices |-> AudioDevices(listed)] :
            listed \in UNION {{s \in [1..n -> DevicePool] :
                                 \A i, j \in 1..n : i # j => s[i] # s[j]} :
                              n \in 0..MaxDevices}}

\* What __init__ of the loopback source meets: the import or PyAudio()
\* raising (no context p), p.get_device_info_by_index(i) raising, or
\* info['name']
ProbeOutcomes ==
    {[ctx |-> FALSE, ok |-> FALSE, name |-> <<>>],
     [ctx |-> TRUE, ok |-> FALSE, name |-> <<>>],
     [ctx |-> TRUE, ok |-> TRUE, name |-> <<"S", "p", "k", " ", "[", "L", "o", "o", "p", "b", "a", "c", "k", "]">>],
     [ctx |-> TRUE, ok |-> TRUE, name |-> <<"H", "d", "m", "i", " ", "[", "L", "o", "o", "p", "b", "a", "c", "k", "]">>]}

\* ----------------------------------------------------------------- sources
NoDevice == [index |-> 0, name |-> <<>>, device_id |-> <<>>]

\* No source object was constructed.
NoSource ==
    [variant |-> "none", url |-> <<>>, device |-> NoDevice,
     device_index |-> -1, device_name |-> <<>>, probe_ctx |-> "none"]

IcecastAudioSource(url) ==
    [variant |-> "IcecastAudioSource", url |-> url, device |-> NoDevice,
     device_index |-> -1, device_name |-> <<>>, probe_ctx |-> "none"]

URLAudioSource(url) ==
    [variant |-> "URLAudioSource", url |-> url, device |-> NoDevice,
     device_index |-> -1, device_name |-> <<>>, probe_ctx |-> "none"]

LocalAudioSource(dev) ==
    [variant |-> "LocalAudioSource", url |-> <<>>, device |-> dev,
     device_index |-> -1, device_name |-> <<>>, probe_ctx |-> "none"]

\* __init__ asks the capture library for the device's name and keeps
\* "Unknown Device" when that raises.  probe_ctx is the state it leaves its
\* library context p in: p.terminate() is the last statement of the try
\* block, and PyAudio has no finalizer that would call it.
WASAPILoopbackAudioSource(device_index, probe) ==
    [variant |-> "WASAPILoopbackAudioSource", url |-> <<>>, device |-> NoDevice,
     device_index |-> device_index,
     device_name |-> IF probe.ok
                     THEN Remove(probe.name, <<" ", "[", "L", "o", "o", "p", "b", "a", "c", "k", "]">>)
                     ELSE <<"U", "n", "k", "n", "o", "w", "n", " ", "D", "e", "v", "i", "c", "e">>,
     probe_ctx |-> IF ~probe.ctx THEN "none"
                   ELSE IF probe.ok THEN "terminated"
                   ELSE "open"]

\* A description that leaves the URL out
Description_NoUrl(source) ==
    CASE source.variant = "IcecastAudioSource" -> <<"I", "c", "e", "c", "a", "s", "t", " ", "S", "t", "r", "e", "a", "m", ":", " ">>
      [] source.variant = "URLAudioSource" -> <<"U", "R", "L", " ", "S", "t", "r", "e", "a", "m", ":", " ">>
      [] source.variant = "LocalAudioSource" -> <<"L", "o", "c", "a", "l", " ", "D", "e", "v", "i", "c", "e", ":", " ">> \o source.device.name
      [] source.variant = "WASAPILoopbackAudioSource" -> <<"S", "y", "s", "t", "e", "m", " ", "A", "u", "d", "i", "o", ":", " ">> \o source.device_name
      [] OTHER -> <<>>

\* get_description() of each source class
Description(source) ==
    CASE source.variant = "IcecastAudioSource" -> <<"I", "c", "e", "c", "a", "s", "t", " ", "S", "t", "r", "e", "a", "m", ":", " ">> \o source.url
      [] source.variant = "URLAudioSource" -> <<"U", "R", "L", " ", "S", "t", "r", "e", "a", "m", ":", " ">> \o source.url
      [] source.variant = "LocalAudioSource" -> <<"L", "o", "c", "a", "l", " ", "D", "e", "v", "i", "c", "e", ":", " ">> \o source.device.name
      [] source.variant = "WASAPILoopbackAudioSource" -> <<"S", "y", "s", "t", "e", "m", " ", "A", "u", "d", "i", "o", ":", " ">> \o source.device_name
      [] OTHER -> <<>>

\* ------------------------------------------------------------------ errors
\* The messages of the exceptions, split into words and punctuation as the
\* bot's responses are, with what the f-string inserts kept in arg
ErrNeedsDeviceIndex ==
    <<"Local", "audio", "source", "requires", "'device_index'", "in", "config">>
ErrIcecastNeedsUrl ==
    <<"Icecast", "audio", "source", "requires", "'url'", "in", "config">>
ErrUrlNeedsUrl ==
    <<"URL", "audio", "source", "requires", "'url'", "in", "config">>
ErrUnknownType ==
    <<"Unknown", "audio", "source", "type", ":", "{source_type}", ".", "Expected", "'local'", ",", "'icecast'", ",", "or", "'url'">>
ErrNoDevice ==
    <<"No", "audio", "device", "found", "with", "index", "{device_index}">>
ErrNoFFmpeg ==
    <<"FFmpeg", "not", "found", ".", "Please", "install", "FFmpeg", "and", "add", "it", "to", "your", "PATH", ".">>
ErrNotAnInt ==
    <<"invalid", "literal", "for", "int()", "with", "base", "10", ":", "{value}">>

Raise(type, message, arg) ==
    [source |-> NoSource, type |-> type, error |-> message, arg |-> arg]

Return(source) ==
    [source |-> source, type |-> "none", error |-> <<>>, arg |-> <<>>]

\* ----------------------------------------------------------------- factory
\* AudioDeviceEnumerator.get_device_by_index(): the first device listed
\* with this index, NoDevice for None
GetDeviceByIndex(devices, index) ==
    IF \E i \in 1..Len(devices) : devices[i].index = index
    THEN devices[CHOOSE i \in 1..Len(devices) :
                    /\ devices[i].index = index
                    /\ \A j \in 1..(i - 1) : devices[j].index # index]
    ELSE NoDevice

CreateLocalSourceByIndex(device_index, enumeration, probe) ==
    IF ~enumeration.ok
    THEN Raise("RuntimeError", ErrNoFFmpeg, <<>>)
    ELSE LET dev == GetDeviceByIndex(enumeration.devices, device_index) IN
         IF dev = NoDevice
         THEN Raise("ValueError", ErrNoDevice, FormatInt(device_index))
         ELSE IF StartsWith(dev.device_id, <<"w", "a", "s", "a", "p", "i", ":">>)
         THEN LET sub == Split(dev.device_id, ":")[2] IN
              IF IsDecimal(sub)
              THEN Return(WASAPILoopbackAudioSource(ParseInt(sub), probe))
              ELSE Raise("ValueError", ErrNotAnInt, sub)
         ELSE Return(LocalAudioSource(dev))

\* url = config.get("url"); url is None
UrlMissing(cfg) == IsNone(cfg.url)

\* the else branch of create_from_config
UnknownType(source_type, cfg) ==
    Raise("ValueError", ErrUnknownType, source_type)

\* create_from_config(source_type, config) under what the platform lists
\* and what the capture library answers
FromConfig(source_type, cfg, enumeration, probe) ==
    LET source_type_lower == Lower(source_type) IN
    IF source_type_lower = <<"l", "o", "c", "a", "l">>
    THEN IF IsNone(cfg.device_index)
         THEN Raise("ValueError", ErrNeedsDeviceIndex, <<>>)
         ELSE CreateLocalSourceByIndex(Value(cfg.device_index), enumeration, probe)
    ELSE IF source_type_lower = <<"i", "c", "e", "c", "a", "s", "t">>
    THEN IF UrlMissing(cfg)
         THEN Raise("ValueError", ErrIcecastNeedsUrl, <<>>)
         ELSE Return(IcecastAudioSource(Value(cfg.url)))
    ELSE IF source_type_lower = <<"u", "r", "l">>
    THEN IF UrlMissing(cfg)
         THEN Raise("ValueError", ErrUrlNeedsUrl, <<>>)
         ELSE Return(URLAudioSource(Value(cfg.url)))
    ELSE UnknownType(source_type, cfg)

\* ------------------------------------------------------------------- calls
NoFactoryCall ==
    [done |-> FALSE, source_type |-> <<>>,
     result |-> Raise("none", <<>>, <<>>), description |-> <<>>]

\* No factory call was made.
FactoryIdle ==
    /\ config = EmptyConfig
    /\ attached = [ok |-> TRUE, devices |-> <<>>]
    /\ created = [k \in FactoryCalls |-> NoFactoryCall]

\* The config the calls pass and the devices the platform lists
FactoryInit ==
    /\ config \in Configs
    /\ attached \in Enumerations
    /\ created = [k \in FactoryCalls |-> NoFactoryCall]

\* The k-th call AudioSourceFactory.create_from_config(source_type, config),
\* followed by get_description() on what it returned
CreateFromConfig(k) ==
    /\ ~created[k].done
    /\ \A j \in 1..(k - 1) : created[j].done
    /\ \E source_type \in Tags, probe \in ProbeOutcomes :
         LET result == FromConfig(source_type, config, attached, probe) IN
         created' = [created EXCEPT ![k] =
                        [done |-> TRUE, source_type |-> source_type,
                         result |-> result,
                         description |-> Description(result.source)]]
    /\ UNCHANGED <<config, attached>>
    /\ FactoryFrame

\* ================================================ the device enumerator
\* AudioDeviceEnumerator (src/src/audio_device.py).  enumerate_devices() is
\* synchronous and keeps no state: a call is one step.  What the platform
\* answers (the capture library's device table, the output of the probe
\* tools) is the input; lines of tool output are given by what the code's
\* tests and regular expressions make of them.

\* ------------------------------------------------------------------ bounds
\* Entries of the capture library's device table.
MaxLibDevices == 2
\* Lines of output of one probe tool.
MaxLines == 2

\* ------------------------------------------------------------------ inputs
\* platform.system()
Systems == {<<"W", "i", "n", "d", "o", "w", "s">>, <<"L", "i", "n", "u", "x">>, <<"D", "a", "r", "w", "i", "n">>, <<"F", "r", "e", "e", "B", "S", "D">>}

\* The sequences over S of length at most n
SeqsUpTo(S, n) == UNION {[1..m -> S] : m \in 0..n}

\* p.get_device_info_by_index(i): a loopback device, another device, or
\* the call raising
LibInfos ==
    {[kind |-> "loopback", name |-> <<"S", "p", "k", " ", "[", "L", "o", "o", "p", "b", "a", "c", "k", "]">>],
     [kind |-> "plain", name |-> <<"M", "i", "c">>],
     [kind |-> "raises", name |-> <<>>]}

\* The capture library: unavailable (the import, PyAudio() or
\* get_device_count() raises), or its device table
Libs ==
    {[available |-> FALSE, infos |-> <<>>]}
    \cup {[available |-> TRUE, infos |-> t] : t \in SeqsUpTo(LibInfos, MaxLibDevices)}

NoLib == [available |-> FALSE, infos |-> <<>>]

\* What subprocess.run() of a probe tool does: raise FileNotFoundError,
\* raise TimeoutExpired, raise something else, or return its output
ToolRuns(LineKinds) ==
    {[outcome |-> o, lines |-> <<>>] :
        o \in {"FileNotFoundError", "TimeoutExpired", "Exception"}}
    \cup {[outcome |-> "ok", lines |-> t] : t \in SeqsUpTo(LineKinds, MaxLines)}

NoTool == [outcome |-> "ok", lines |-> <<>>]

\* Lines of `ffmpeg -list_devices true -f dshow`: "<name>" (audio), a line
\* with a quote and (audio) the expression does not match, a line with a
\* quote only (Alternative name), any other line
DShowLines ==
    {[kind |-> "audio", name |-> <<"M", "i", "c">>],
     [kind |-> "audio", name |-> <<"S", "t", "e", "r", "e", "o", " ", "M", "i", "x">>],
     [kind |-> "unmatched", name |-> <<>>],
     [kind |-> "quoted", name |-> <<>>],
     [kind |-> "other", name |-> <<>>]}

\* Lines of `ffmpeg -sources pulse`: with "* " in them, or not
PulseLines ==
    {[kind |-> "source", name |-> <<"m", "o", "n">>],
     [kind |-> "other", name |-> <<>>]}

\* Lines of `arecord -L`: blank after strip(), or not
ArecordLines ==
    {[kind |-> "text", name |-> <<"h", "w", ":", "0">>],
     [kind |-> "blank", name |-> <<>>]}

\* Lines of `ffmpeg -f avfoundation -list_devices true`: the two section
\* headers, "[...] [n] <name>", a line with "]" the expression does not
\* match, any other line
AVFoundationLines ==
    {[kind |-> "audio devices:", name |-> <<>>],
     [kind |-> "video devices:", name |-> <<>>],
     [kind |-> "device", name |-> <<"M", "i", "c">>],
     [kind |-> "unmatched", name |-> <<>>],
     [kind |-> "other", name |-> <<>>]}

\* The machines enumerate_devices() runs on
Hosts ==
    {[system |-> <<"W", "i", "n", "d", "o", "w", "s">>, lib |-> l, tool |-> t, tool2 |-> NoTool] :
        l \in Libs, t \in ToolRuns(DShowLines)}
    \cup {[system |-> <<"L", "i", "n", "u", "x">>, lib |-> NoLib, tool |-> t, tool2 |-> u] :
        t \in ToolRuns(PulseLines), u \in ToolRuns(ArecordLines)}
    \cup {[system |-> <<"D", "a", "r", "w", "i", "n">>, lib |-> NoLib, tool |-> t, tool2 |-> NoTool] :
        t \in ToolRuns(AVFoundationLines)}
    \cup {[system |-> <<"F", "r", "e", "e", "B", "S", "D">>, lib |-> NoLib, tool |-> NoTool, tool2 |-> NoTool]}

\* ---------------------------------------------------------------- results
AudioDevice(index, name, device_id, device_type) ==
    [index |-> index, name |-> name, device_id |-> device_id,
     device_type |-> device_type]

ErrUnsupported == <<"Unsupported", "operating", "system", ":", "{system}">>
ErrNoLinuxTools ==
    <<"FFmpeg", "or", "audio", "tools", "not", "found", ".", "Please", "install",
      "FFmpeg", "and", "ALSA/PulseAudio", "utilities", ".">>
ErrLinuxFailed == <<"Failed", "to", "enumerate", "Linux", "audio", "devices", ":", "{e}">>
ErrMacosFailed == <<"Failed", "to", "enumerate", "macOS", "audio", "devices", ":", "{e}">>

\* return devices
Listed(devices) == [raised |-> FALSE, error |-> <<>>, devices |-> devices]

\* raise RuntimeError(message)
RaisedRuntimeError(message) == [raised |-> TRUE, error |-> message, devices |-> <<>>]

\* ----------------------------------------------------------------- Windows
\* The loop over the capture library's device table (audio_device.py
\* 77-94), from table entry i on: the devices appended, the counter
\* device_index, and whether get_device_info_by_index() raised
RECURSIVE LoopbackScan(_, _, _, _)
LoopbackScan(infos, i, devices, device_index) ==
    IF i > Len(infos)
    THEN [devices |-> devices, device_index |-> device_index, failed |-> FALSE]
    ELSE IF infos[i].kind = "raises"
    THEN [devices |-> devices, device_index |-> device_index, failed |-> TRUE]
    ELSE IF infos[i].kind = "loopback"
    THEN LoopbackScan(infos, i + 1,
             Append(devices,
                 AudioDevice(device_index,
                     Remove(infos[i].name, <<" ", "[", "L", "o", "o", "p", "b", "a", "c", "k", "]">>) \o <<" ", "[", "S", "y", "s", "t", "e", "m", " ", "A", "u", "d", "i", "o", " ", "O", "u", "t", "p", "u", "t", "]">>,
                     <<"w", "a", "s", "a", "p", "i", ":">> \o FormatInt(i - 1),
                     "output")),
             device_index + 1)
    ELSE LoopbackScan(infos, i + 1, devices, device_index)

\* The first try block of _enumerate_windows_devices: every exception is
\* logged and swallowed, and what was appended before it stays.
LoopbackHalf(lib) ==
    IF ~lib.available
    THEN [devices |-> <<>>, device_index |-> 1, failed |-> TRUE]
    ELSE LoopbackScan(lib.infos, 1, <<>>, 1)

\* any(keyword in device_name.lower() for keyword in ...)
IsStereoMix(device_name) ==
    \E keyword \in {<<"s", "t", "e", "r", "e", "o", " ", "m", "i", "x">>, <<"w", "a", "v", "e", " ", "o", "u", "t">>, <<"w", "h", "a", "t", " ", "u", " ", "h", "e", "a", "r">>} :
        Contains(Lower(device_name), keyword)

\* The loop over the lines of the DirectShow listing (audio_device.py
\* 116-140), from line i on
RECURSIVE DShowScan(_, _, _, _)
DShowScan(lines, i, devices, device_index) ==
    IF i > Len(lines)
    THEN devices
    ELSE IF lines[i].kind = "audio"
    THEN DShowScan(lines, i + 1,
             Append(devices,
                 AudioDevice(device_index,
                     lines[i].name \o (IF IsStereoMix(lines[i].name)
                                       THEN <<" ", "[", "S", "y", "s", "t", "e", "m", " ", "A", "u", "d", "i", "o", "]">>
                                       ELSE <<" ", "[", "M", "i", "c", "r", "o", "p", "h", "o", "n", "e", "]">>),
                     <<"d", "s", "h", "o", "w", ":", "a", "u", "d", "i", "o", "=">> \o lines[i].name,
                     IF IsStereoMix(lines[i].name) THEN "output" ELSE "input")),
             device_index + 1)
    ELSE DShowScan(lines, i + 1, devices, device_index)

\* A DirectShow half that counts from 1 again
DShowCounter_Restarted(device_index) == 1

\* device_index is one variable of _enumerate_windows_devices, used by both
\* halves
DShowCounter(device_index) == device_index

\* except FileNotFoundError: raise RuntimeError("FFmpeg not found. ...")
OnFFmpegMissing(devices) == RaisedRuntimeError(ErrNoFFmpeg)

EnumerateWindows(lib, tool) ==
    LET half == LoopbackHalf(lib) IN
    IF tool.outcome = "FileNotFoundError"
    THEN OnFFmpegMissing(half.devices)
    ELSE IF tool.outcome \in {"TimeoutExpired", "Exception"}
    THEN Listed(half.devices)
    ELSE Listed(DShowScan(tool.lines, 1, half.devices, DShowCounter(half.device_index)))

\* ------------------------------------------------------------------- Linux
RECURSIVE LinuxScan(_, _, _, _, _)
LinuxScan(lines, kind, i, devices, device_index) ==
    IF i > Len(lines)
    THEN devices
    ELSE IF lines[i].kind = kind
    THEN LinuxScan(lines, kind, i + 1,
             Append(devices,
                 AudioDevice(device_index, lines[i].name, lines[i].name, "input")),
             device_index + 1)
    ELSE LinuxScan(lines, kind, i + 1, devices, device_index)

\* except FileNotFoundError / except Exception of _enumerate_linux_devices
LinuxFailure(run) ==
    IF run.outcome = "FileNotFoundError"
    THEN RaisedRuntimeError(ErrNoLinuxTools)
    ELSE RaisedRuntimeError(ErrLinuxFailed)

EnumerateLinux(pulse, arecord) ==
    IF pulse.outcome # "ok"
    THEN LinuxFailure(pulse)
    ELSE LET devices == LinuxScan(pulse.lines, "source", 1, <<>>, 1) IN
         IF devices # <<>>
         THEN Listed(devices)
         ELSE IF arecord.outcome # "ok"
         THEN LinuxFailure(arecord)
         ELSE Listed(LinuxScan(arecord.lines, "text", 1, devices, 1))

\* ------------------------------------------------------------------- macOS
RECURSIVE MacosScan(_, _, _, _, _)
MacosScan(lines, i, in_audio_section, devices, device_index) ==
    IF i > Len(lines)
    THEN devices
    ELSE IF lines[i].kind = "audio devices:"
    THEN MacosScan(lines, i + 1, TRUE, devices, device_index)
    ELSE IF lines[i].kind = "video devices:"
    THEN MacosScan(lines, i + 1, FALSE, devices, device_index)
    ELSE IF in_audio_section /\ lines[i].kind = "device"
    THEN MacosScan(lines, i + 1, in_audio_section,
             Append(devices,
                 AudioDevice(device_index, lines[i].name,
                     <<":">> \o FormatInt(device_index - 1), "input")),
             device_index + 1)
    ELSE MacosScan(lines, i + 1, in_audio_section, devices, device_index)

EnumerateMacos(tool) ==
    IF tool.outcome = "FileNotFoundError"
    THEN RaisedRuntimeError(ErrNoFFmpeg)
    ELSE IF tool.outcome # "ok"
    THEN RaisedRuntimeError(ErrMacosFailed)
    ELSE Listed(MacosScan(tool.lines, 1, FALSE, <<>>, 1))

\* ------------------------------------------------------ enumerate_devices
\* get_system_type()
GetSystemType(system) == Lower(system)

EnumerateDevices(h) ==
    LET system == GetSystemType(h.system) IN
    IF system = <<"w", "i", "n", "d", "o", "w", "s">> THEN EnumerateWindows(h.lib, h.tool)
    ELSE IF system = <<"l", "i", "n", "u", "x">> THEN EnumerateLinux(h.tool, h.tool2)
    ELSE IF system = <<"d", "a", "r", "w", "i", "n">> THEN EnumerateMacos(h.tool)
    ELSE RaisedRuntimeError(ErrUnsupported)

NoListing == [done |-> FALSE, result |-> Listed(<<>>)]

\* A machine nothing is enumerated on
EnumIdle ==
    /\ host = [system |-> <<"F", "r", "e", "e", "B", "S", "D">>, lib |-> NoLib, tool |-> NoTool, tool2 |-> NoTool]
    /\ listing = NoListing

EnumInit ==
    /\ host \in Hosts
    /\ listing = NoListing

\* One call of AudioDeviceEnumerator.enumerate_devices()
Enumerate ==
    /\ ~listing.done
    /\ listing' = [done |-> TRUE, result |-> EnumerateDevices(host)]
    /\ UNCHANGED host
    /\ EnumFrame

\* ---------------------------------------------------------- specifications
Start(t) ==
    \/ JoinStart(t)
    \/ LeaveStart(t)
    \/ PlayStart(t)
    \/ Stop(t)
    \/ CleanupStart(t)

Resume(t) ==
    \/ JoinResume(t)
    \/ LeaveResume(t)
    \/ PlayConnectResume(t)
    \/ PlayJoinedResume(t)
    \/ CleanupDisconnected(t)
    \/ CleanupClosed(t)

\* The bot and the objects around it after construction
Init == BotInit /\ ReaderInit /\ LoopIdle /\ FactoryIdle /\ EnumIdle

\* Handlers interleave at their awaits.
Next ==
    \/ \E t \in Tasks : Start(t)
    \/ \E t \in Tasks : Resume(t)
    \/ Environment

Spec == Init /\ [][Next]_vars

\* No handler is in flight.
Quiet == \A t \in Tasks : tasks[t].pc = "idle"

\* Commands handled one at a time: a handler starts only when none is in
\* flight.
NextSeq ==
    \/ \E t \in Tasks : Quiet /\ Start(t)
    \/ \E t \in Tasks : Resume(t)
    \/ Environment

SeqSpec == Init /\ [][NextSeq]_vars

\* -------------------------------------------------- reader specifications
\* A bot nothing calls
BotIdle == BotInit /\ sourceKind = "ffmpeg"

ReaderSpecInit == BotIdle /\ ReaderInit /\ LoopIdle /\ FactoryIdle /\ EnumIdle

\* Reader calls interleave at their awaits.
ReaderNext ==
    \/ \E t \in Calls : ConnectStart(t)
    \/ \E t \in Calls : CloseStart(t)
    \/ \E t \in Calls : ReadStart(t)
    \/ \E t \in Calls : ConnectResume(t)
    \/ \E t \in Calls : CloseResume(t)
    \/ \E t \in Calls : ReadNext(t)
    \/ \E t \in Calls : Cancel(t)
    \/ \E t \in Calls : ReadCancelled(t)
    \/ \E t \in Calls : ConnectCancelled(t)
    \/ \E t \in Calls : CloseCancelled(t)

ReaderSpec == ReaderSpecInit /\ [][ReaderNext]_vars

\* No reader call is in flight.
ReaderQuiet == \A t \in Calls : rtasks[t].pc = "idle"

\* Non-overlapping calls: a call starts only when none is in flight.
ReaderSeqNext ==
    \/ \E t \in Calls : ReaderQuiet /\ ConnectStart(t)
    \/ \E t \in Calls : ReaderQuiet /\ CloseStart(t)
    \/ \E t \in Calls : ReaderQuiet /\ ReadStart(t)
    \/ \E t \in Calls : ConnectResume(t)
    \/ \E t \in Calls : CloseResume(t)
    \/ \E t \in Calls : ReadNext(t)
    \/ \E t \in Calls : Cancel(t)
    \/ \E t \in Calls : ReadCancelled(t)
    \/ \E t \in Calls : ConnectCancelled(t)
    \/ \E t \in Calls : CloseCancelled(t)

ReaderSeqSpec == ReaderSpecInit /\ [][ReaderSeqNext]_vars

\* The event loop runs every task that is ready: a cancelled task is
\* resumed.
ReaderFairSpec ==
    ReaderSpec /\ \A t \in Calls : WF_vars(ReadCancelled(t))

\* ------------------------------------------------ loopback specification
LoopSpecInit == BotIdle /\ ReaderInit /\ LoopInit /\ FactoryIdle /\ EnumIdle

\* The calls on one loopback source and on its handles, in any order
LoopNext ==
    \/ LoopCreate
    \/ LoopSourceCleanup
    \/ \E h \in Pcms : PcmCleanup(h)
    \/ \E h \in Pcms : PcmRead(h)
    \/ \E h \in Pcms : StreamStops(h)

LoopSpec == LoopSpecInit /\ [][LoopNext]_vars

\* ------------------------------------------------- factory specification
FactorySpecInit == BotIdle /\ ReaderInit /\ LoopIdle /\ FactoryInit /\ EnumIdle

\* Calls of create_from_config, one after another
FactoryNext == \E k \in FactoryCalls : CreateFromConfig(k)

FactorySpec == FactorySpecInit /\ [][FactoryNext]_vars

\* ---------------------------------------------- enumerator specification
EnumSpecInit == BotIdle /\ ReaderInit /\ LoopIdle /\ FactoryIdle /\ EnumInit

EnumNext == Enumerate

EnumSpec == EnumSpecInit /\ [][EnumNext]_vars

\* ================================================================== claims
\* The command the last step completed
Handled(cmd) == last.cmd = cmd

\* The last response of the completed command
LastResp == last.resp[Len(last.resp)]

\* C1: a play handled while the voice client is connected and playing sends
\* exactly "Already playing audio.", calls neither create_discord_source()
\* nor voice_client.play(), and leaves the handle being played as it was:
\* still the one played by the stored client, its stream still open.
C1_PlayWhilePlayingRefused ==
    (Handled("play") /\ last.pre.connected /\ last.pre.playing # 0) =>
        /\ last.resp = <<MsgAlreadyPlaying>>
        /\ last.calls = <<>>
        /\ voice_client = last.pre.vc
        /\ PlayingOn(voice_client, clients) = last.pre.playing
        /\ handles[last.pre.playing].stream = "open"

C1_Witness ==
    Handled("play") /\ last.pre.connected /\ last.pre.playing # 0

\* The playable handles create_discord_source() returned whose stream has
\* not been stopped
LiveHandles == {h \in Handles : handles[h].stream = "open"}

\* The clients whose playback was started and not stopped
PlayingClients == {c \in Clients : clients[c].playing # 0}

\* C2: in every reachable state at most one playable handle of the audio
\* source is open (created and not yet stopped), and at most one started
\* playback has not been stopped.
C2_AtMostOneOpenHandle ==
    /\ Cardinality(LiveHandles) <= 1
    /\ Cardinality(PlayingClients) <= 1

\* C3: with commands handled one at a time, a play by a member in a voice
\* channel while no voice client is connected calls channel.connect()
\* first; when that raises it sends the failure and calls nothing else,
\* leaving the stored client as it was; when it returns, the new client is
\* stored, "Joined" is sent, create_discord_source() is called next and,
\* when it returns a handle, voice_client.play() after it.
C3_PlayAutoJoinsThenStarts ==
    (Handled("play") /\ ~last.pre.connected /\ last.author = "inchannel") =>
        \/ /\ last.outcome = "join_failed"
           /\ last.resp = <<MsgJoinFailed>>
           /\ last.calls = <<"connect">>
           /\ voice_client = last.pre.vc
        \/ /\ last.outcome = "create_failed"
           /\ last.resp = <<MsgJoined("General"), MsgStartFailed>>
           /\ last.calls = <<"connect", "create">>
           /\ voice_client \notin {None, last.pre.vc}
        \/ /\ last.outcome = "play_failed"
           /\ last.resp = <<MsgJoined("General"), MsgStartFailed>>
           /\ last.calls = <<"connect", "create", "play">>
           /\ voice_client \notin {None, last.pre.vc}
        \/ /\ last.outcome = "ok"
           /\ last.resp = <<MsgJoined("General"), MsgNowStreaming(GetDescription(sourceKind))>>
           /\ last.calls = <<"connect", "create", "play">>
           /\ voice_client \notin {None, last.pre.vc}
           /\ clients[voice_client].playing = last.h

C3_Witness ==
    /\ Handled("play") /\ ~last.pre.connected /\ last.author = "inchannel"
    /\ last.outcome = "ok"
    /\ is_streaming(voice_client, clients)

\* The fragments the tests look for in a response
FragNotConnectedToVoice == <<"Not", "connected", "to", "a", "voice", "channel">>
FragNeedVoice == <<"need", "to", "be", "in", "a", "voice", "channel">>
FragAlreadyConnected == <<"Already", "connected">>
FragNotConnected == <<"Not", "connected">>
FragNotPlaying == <<"Not", "currently", "playing">>
FragStartFailed == <<"Failed", "to", "start", "streaming">>

C7_LeaveDisconnectsAndDrops ==
    Handled("leave") =>
        IF last.pre.connected
        THEN /\ last.calls = <<"disconnect">>
             /\ ~clients[last.pre.vc].connected
             /\ voice_client = None
             /\ ~is_streaming(voice_client, clients)
             /\ last.resp = <<MsgDisconnected>>
        ELSE /\ Len(last.resp) = 1
             /\ Contains(last.resp[1], FragNotConnected)
             /\ last.calls = <<>>
             /\ Snap(voice_client, clients) = last.pre

C7_Witness ==
    Handled("leave") /\ last.pre.connected /\ last.pre.playing # 0

\* C8: stop refuses without calling voice_client.stop() when the bot is
\* not connected to a voice channel (response contains "Not connected") or
\* is connected but not playing (response contains "Not currently
\* playing"); otherwise it calls stop() once and is_streaming() is false
\* afterwards.
C8_StopRefusesOrStops ==
    Handled("stop") =>
        IF ~last.pre.connected
        THEN /\ Len(last.resp) = 1
             /\ Contains(last.resp[1], FragNotConnected)
             /\ last.calls = <<>>
        ELSE IF last.pre.playing = 0
        THEN /\ Len(last.resp) = 1
             /\ Contains(last.resp[1], FragNotPlaying)
             /\ last.calls = <<>>
        ELSE /\ last.calls = <<"stop">>
             /\ ~is_streaming(voice_client, clients)

\* C9: cleanup() calls disconnect() first exactly when the voice client is
\* connected, then the audio source's cleanup() once, then close(); the
\* source's cleanup() is called when no voice client exists, too.
C9_CleanupOrder ==
    Handled("cleanup") =>
        /\ last.calls = (IF last.pre.connected THEN <<"disconnect">> ELSE <<>>)
                            \o <<"source.cleanup", "close">>
        /\ (last.pre.connected => ~clients[last.pre.vc].connected)
        /\ closed

C9_Witness ==
    Handled("cleanup") /\ last.pre.connected

\* C10: when a play fails to start playback (create_discord_source()
\* raises, or voice_client.play() raises after a handle was created) the
\* failure is sent to the chat, nothing is playing, nothing the attempt
\* opened (capture stream, capture-library context) is still open, and
\* the attempt was made once: no handler is left retrying.
C10_FailedPlayLeavesNothingOpen ==
    (Handled("play") /\ last.outcome \in {"create_failed", "play_failed"}) =>
        /\ Contains(LastResp, FragStartFailed)
        /\ ~is_streaming(voice_client, clients)
        /\ Len(SelectSeq(last.calls, LAMBDA x : x = "create")) = 1
        /\ last.h # 0 => ~HandleOpen(handles[last.h])

\* ------------------------------------------------- claims: stream reader
\* The reader call the last step completed
Returned(call) == rlast.call = call /\ ~rlast.cancelled

\* The reader's three fields now
ReaderNow == ReaderSnap(session, response, is_connected)

\* C11: connect() called while the reader is connected is a no-op: it
\* creates no session, issues no GET, and leaves the held session, the
\* held response and is_connected() as they were.
C11_ConnectWhileConnectedNoOp ==
    (Returned("connect") /\ rlast.pre.is_connected) =>
        /\ rlast.calls = <<>>
        /\ rlast.outcome = "already"
        /\ ReaderNow = rlast.pre

C11_Witness ==
    /\ Returned("connect") /\ rlast.pre.is_connected
    /\ rlast.pre.session # None /\ http[rlast.pre.session].session = "open"

\* The errors a failed connect() raises: of the GET, of raise_for_status()
ConnectErrors == {"raise", "status_error"}

\* C12: with non-overlapping calls, a connect() whose GET raises or whose
\* response has an error status leaves the reader disconnected, holding
\* neither session nor response; the session it created and the response
\* it obtained are closed; the error it raises is the one that made it
\* fail; and a later connect() finds the reader disconnected and tries
\* again.
C12_FailedConnectReleases ==
    (Returned("connect") /\ rlast.outcome \in ConnectErrors) =>
        /\ ~is_connected
        /\ session = None
        /\ response = None
        /\ http[rlast.s].session = "closed"
        /\ http[rlast.s].response = (IF rlast.outcome = "status_error" THEN "closed" ELSE "none")
        /\ rlast.calls[Len(rlast.calls)] = "session.close"
        /\ ConnectGuard(is_connected) = "connect"

C12_Witness ==
    Returned("connect") /\ rlast.outcome = "status_error"

\* C13: iterating read_stream() while the reader is not connected raises
\* the not-connected RuntimeError before any chunk is yielded and leaves
\* the reader as it was.
C13_ReadNotConnectedRaises ==
    (Returned("read_stream") /\ ~rlast.pre.is_connected) =>
        /\ rlast.outcome = "RuntimeError"
        /\ rlast.chunks = <<>>
        /\ rlast.calls = <<>>
        /\ ReaderNow = rlast.pre

C13_Witness ==
    /\ Returned("read_stream") /\ ~rlast.pre.is_connected
    /\ \E s \in Sessions : http[s].session = "closed"

\* C14: with non-overlapping calls, close() raises nothing in any state,
\* leaves is_connected() false with no response and no session held, and
\* closes exactly the response and the session the reader held, each once:
\* a close() that finds none held closes nothing.
C14_CloseSafeIdempotent ==
    Returned("close") =>
        /\ rlast.outcome = "ok"
        /\ ReaderNow = ReaderSnap(None, None, FALSE)
        /\ rlast.calls =
              (IF rlast.pre.response # None THEN <<"response.close">> ELSE <<>>)
                  \o (IF rlast.pre.session # None THEN <<"session.close">> ELSE <<>>)
        /\ rlast.pre.response # None => http[rlast.pre.response].response = "closed"
        /\ rlast.pre.session # None => http[rlast.pre.session].session = "closed"

C14_Witness ==
    Returned("close") /\ rlast.pre.is_connected /\ rlast.pre.response # None

\* C15: a cancellation that arrives while read_stream() waits for a chunk
\* is raised again to the caller, whatever was yielded before: the
\* iteration never ends normally on it, and the cancelled iteration always
\* ends, so whoever awaits its task proceeds.
C15_ReadCancellationPropagates ==
    /\ [](rlast.call = "read_stream" /\ rlast.cancelled
            => rlast.outcome = "CancelledError")
    /\ \A t \in Calls :
        (rtasks[t].pc = "reading" /\ rtasks[t].cancel)
            ~> (rtasks[t].pc = "idle")

C15_Witness ==
    /\ rlast.call = "read_stream" /\ rlast.cancelled
    /\ rlast.chunks # <<>>

\* ----------------------------------------------- claims: loopback source
\* C16: cleanup of the loopback source and of its handles, called any
\* number of times, raises nothing, and on every handle the capture stream
\* is stopped and the library context terminated at most once: a cleanup
\* after the first calls nothing.
C16_CleanupIdempotent ==
    /\ llast.op \in {"cleanup", "source.cleanup"} => llast.outcome = "ok"
    /\ \A h \in Pcms : pcm[h].stops <= 1 /\ pcm[h].terminates <= 1

\* C17: once cleanup() of the loopback source has returned, no capture
\* stream and no library context opened through the source is open; it
\* raises nothing, also when nothing was opened.
C17_SourceCleanupReleases ==
    llast.op = "source.cleanup" =>
        /\ llast.outcome = "ok"
        /\ \A h \in Pcms : pcm[h].stream \notin {"active", "inactive"}
        /\ \A h \in Pcms : pcm[h].ctx # "open"

\* C18: for every probed sample rate and channel count, read() raises
\* nothing and returns empty bytes or exactly one 20 ms frame of 48 kHz
\* 16-bit stereo: 3840 bytes.
C18_ReadFrameSize ==
    llast.op = "read" =>
        /\ llast.outcome = "ok"
        /\ llast.bytes \in {0, FrameBytes}

\* ------------------------------------------------ claims: source factory
\* The calls of create_from_config made so far
FactoryCallsDone == {k \in FactoryCalls : created[k].done}

\* Two tags that differ only in letter case
DifferOnlyInCase(a, b) ==
    /\ Len(a) = Len(b)
    /\ \A i \in 1..Len(a) : LowerChar(a[i]) = LowerChar(b[i])

\* The tags the factory knows
KnownTags == {<<"l", "o", "c", "a", "l">>, <<"i", "c", "e", "c", "a", "s", "t">>, <<"u", "r", "l">>}

\* What a call came to: the class of the source returned, or the exception
Outcome(result) ==
    [variant |-> result.source.variant, type |-> result.type, error |-> result.error]

\* C19: create_from_config depends on source_type only through its lowercase
\* form: two calls with the same config whose tags differ only in letter
\* case come to the same outcome (the same source class or the same
\* exception), and a call whose tag is, in any letter case, none of local,
\* icecast and url raises the unknown-source-type ValueError and constructs
\* no source.
C19_TagCaseInsensitive ==
    /\ \A a, b \in FactoryCallsDone :
         DifferOnlyInCase(created[a].source_type, created[b].source_type)
         => Outcome(created[a].result) = Outcome(created[b].result)
    /\ \A a \in FactoryCallsDone :
         (\A w \in KnownTags : ~DifferOnlyInCase(created[a].source_type, w))
         => /\ created[a].result.type = "ValueError"
            /\ created[a].result.error = ErrUnknownType
            /\ created[a].result.source = NoSource

\* "ICECAST" and "icecast" were passed with a config that has a url, and
\* both calls returned an IcecastAudioSource; an unknown tag is not needed
\* for the first half of the claim.
C19_Witness ==
    /\ ~IsNone(config.url)
    /\ created[1].done /\ created[2].done
    /\ created[1].source_type = Upper(<<"i", "c", "e", "c", "a", "s", "t">>)
    /\ created[2].source_type = <<"i", "c", "e", "c", "a", "s", "t">>
    /\ created[1].result.source.variant = "IcecastAudioSource"
    /\ created[2].result.source.variant = "IcecastAudioSource"

\* C20: for the tags icecast and url (in any letter case) a config with no
\* url raises the ValueError whose message names 'url' and constructs no
\* source, and a config with a url returns the matching class,
\* IcecastAudioSource or URLAudioSource, whose get_description() contains
\* the url exactly.
C20_UrlRequiredAndDescribed ==
    \A k \in FactoryCallsDone :
        LET call == created[k]
            tag == Lower(call.source_type)
        IN  tag \in {<<"i", "c", "e", "c", "a", "s", "t">>, <<"u", "r", "l">>} =>
              IF IsNone(config.url)
              THEN /\ call.result.type = "ValueError"
                   /\ Contains(call.result.error, <<"requires", "'url'">>)
                   /\ call.result.source = NoSource
              ELSE /\ call.result.type = "none"
                   /\ call.result.source.variant =
                        (IF tag = <<"i", "c", "e", "c", "a", "s", "t">> THEN "IcecastAudioSource" ELSE "URLAudioSource")
                   /\ call.result.source.url = Value(config.url)
                   /\ Contains(call.description, Value(config.url))

\* A url source was made from a config with a non-empty url, and an icecast
\* source after it.
C20_Witness ==
    /\ config.url = {<<"h", ":", "/", "/", "a">>}
    /\ created[1].done /\ created[2].done
    /\ Lower(created[1].source_type) = <<"u", "r", "l">>
    /\ Lower(created[2].source_type) = <<"i", "c", "e", "c", "a", "s", "t">>
    /\ created[1].result.source.variant = "URLAudioSource"
    /\ created[2].result.source.variant = "IcecastAudioSource"
    /\ Contains(created[2].description, <<"h", ":", "/", "/", "a">>)

\* C21: for the tags icecast and url (in any letter case) a config whose url
\* is the empty string is rejected: the call raises the ValueError whose
\* message names 'url' and constructs no source.
C21_EmptyUrlRejected ==
    \A k \in FactoryCallsDone :
        (/\ Lower(created[k].source_type) \in {<<"i", "c", "e", "c", "a", "s", "t">>, <<"u", "r", "l">>}
         /\ config.url = {<<>>})
        => /\ created[k].result.type = "ValueError"
           /\ Contains(created[k].result.error, <<"requires", "'url'">>)
           /\ created[k].result.source = NoSource

\* The device the enumeration resolves for the config's device_index
ResolvedDevice == GetDeviceByIndex(attached.devices, Value(config.device_index))

\* C22: for the tag local (in any letter case), when the enumeration
\* succeeds: a config without device_index raises the ValueError naming
\* 'device_index'; a config whose device_index no listed device carries
\* raises the device-not-found ValueError; otherwise the call returns a
\* source whose get_description() contains the name of the listed device
\* with that index, for loopback devices as well as ordinary ones.
C22_LocalDescribesResolvedDevice ==
    \A k \in FactoryCallsDone :
        (Lower(created[k].source_type) = <<"l", "o", "c", "a", "l">> /\ attached.ok) =>
            IF IsNone(config.device_index)
            THEN /\ created[k].result.type = "ValueError"
                 /\ Contains(created[k].result.error, <<"requires", "'device_index'">>)
                 /\ created[k].result.source = NoSource
            ELSE IF ResolvedDevice = NoDevice
            THEN /\ created[k].result.type = "ValueError"
                 /\ created[k].result.error = ErrNoDevice
                 /\ created[k].result.source = NoSource
            ELSE /\ created[k].result.type = "none"
                 /\ Contains(created[k].description, ResolvedDevice.name)

\* The local branch got as far as a device: the tag is local, the
\* enumeration succeeded, the config has a device_index and a listed device
\* carries it.
LocalResolved(k) ==
    /\ created[k].done
    /\ Lower(created[k].source_type) = <<"l", "o", "c", "a", "l">>
    /\ attached.ok
    /\ ~IsNone(config.device_index)
    /\ ResolvedDevice # NoDevice

\* C23: when the device resolved for a local config has an identifier that
\* begins with "wasapi:", the factory returns a loopback source whose
\* capture-library device index is the number written after the prefix;
\* for every other identifier it returns a local-device source holding the
\* resolved device.
C23_VariantByIdentifier ==
    \A k \in FactoryCalls :
        LocalResolved(k) =>
            LET source == created[k].result.source IN
            IF SubSeq(ResolvedDevice.device_id, 1, 7) = <<"w", "a", "s", "a", "p", "i", ":">>
            THEN /\ source.variant = "WASAPILoopbackAudioSource"
                 /\ source.device_index >= 0
                 /\ <<"w", "a", "s", "a", "p", "i", ":">> \o FormatInt(source.device_index) = ResolvedDevice.device_id
            ELSE /\ source.variant = "LocalAudioSource"
                 /\ source.device = ResolvedDevice

\* With a loopback device "wasapi:12" and a microphone listed, one call
\* resolved the loopback device and built a loopback source for capture
\* index 12.
C23_Witness ==
    /\ LocalResolved(1)
    /\ ResolvedDevice.device_id = <<"w", "a", "s", "a", "p", "i", ":", "1", "2">>
    /\ created[1].result.source.variant = "WASAPILoopbackAudioSource"
    /\ created[1].result.source.device_index = 12
    /\ \E i \in 1..Len(attached.devices) :
         ~StartsWith(attached.devices[i].device_id, <<"w", "a", "s", "a", "p", "i", ":">>)

\* C24: the factory opens no resource: once create_from_config has
\* returned or raised, for every tag and on every path, no capture stream
\* is open and every capture-library context created while the source was
\* constructed has been terminated, also when probing the loopback device
\* raised.
C24_FactoryOpensNothing ==
    /\ \A h \in Pcms : pcm[h].stream # "open"
    /\ \A k \in FactoryCallsDone :
         created[k].result.source.probe_ctx \in {"none", "terminated"}

\* ------------------------------------------------ claims: device enumerator
\* enumerate_devices() returned a list.
ListReturned == listing.done /\ ~listing.result.raised

\* C25: every list one enumerate_devices() call returns carries the index
\* values 1..n in list order, on every platform branch: the k-th device has
\* index k.  On Windows the DirectShow entries therefore continue from the
\* last loopback entry's index.
C25_IndexesSequential ==
    ListReturned =>
        \A k \in 1..Len(listing.result.devices) :
            listing.result.devices[k].index = k

\* On Windows a list was returned that holds a loopback device followed by
\* a DirectShow device.
C25_Witness ==
    /\ ListReturned
    /\ Lower(host.system) = <<"w", "i", "n", "d", "o", "w", "s">>
    /\ Len(listing.result.devices) >= 2
    /\ StartsWith(listing.result.devices[1].device_id, <<"w", "a", "s", "a", "p", "i", ":">>)
    /\ StartsWith(listing.result.devices[Len(listing.result.devices)].device_id, <<"d", "s", "h", "o", "w", ":">>)

\* The enumeration of the capture library failed: the library is not
\* available, or asking for a table entry raised.
LibFails(lib) ==
    \/ ~lib.available
    \/ \E i \in 1..Len(lib.infos) : lib.infos[i].kind = "raises"

\* C26: on Windows, for every combination of outcomes of the two halves:
\* when the loopback-library enumeration fails, that half contributes no
\* devices and the DirectShow half still runs; when the probe tool is
\* missing, enumerate_devices raises and returns no list, whatever the
\* loopback half found; when the probe tool times out, the result is
\* exactly the loopback half's devices.
C26_WindowsFailureHandling ==
    (listing.done /\ Lower(host.system) = <<"w", "i", "n", "d", "o", "w", "s">>) =>
        LET loopback == IF LibFails(host.lib)
                        THEN <<>>
                        ELSE LoopbackHalf(host.lib).devices
        IN  CASE host.tool.outcome = "FileNotFoundError" ->
                    /\ listing.result.raised
                    /\ listing.result.error = ErrNoFFmpeg
                    /\ listing.result.devices = <<>>
              [] host.tool.outcome = "TimeoutExpired" ->
                    /\ ~listing.result.raised
                    /\ listing.result.devices = loopback
              [] host.tool.outcome = "ok" ->
                    /\ ~listing.result.raised
                    /\ listing.result.devices =
                         DShowScan(host.tool.lines, 1, loopback, Len(loopback) + 1)
              [] OTHER -> TRUE

\* ------------------------------------- claims: stream reader, every state
\* C27: in every state one reader reaches by non-overlapping calls of
\* connect(), read_stream() and close(): is_connected() is true only while
\* a session and a response are both held; and when a connect() has
\* completed by raising its error, or a close() has completed, and
\* is_connected() is false, neither a session nor a response is held.
C27_ConnectedHoldsBoth ==
    /\ is_connected => (session # None /\ response # None)
    /\ ((\/ Returned("connect") /\ rlast.outcome \in ConnectErrors
         \/ Returned("close"))
        /\ ~is_connected)
       => (session = None /\ response = None)

\* A connect() has succeeded after an earlier session of the same reader
\* was closed: the reader is connected and holds the new session and its
\* response.
C27_Witness ==
    /\ Returned("connect") /\ rlast.outcome = "ok"
    /\ is_connected /\ session # None /\ response # None
    /\ \E s \in Sessions : s # session /\ http[s].session = "closed"

\* C28: when connect() and close() calls on one reader overlap at their
\* awaits, no HTTP session is leaked and no stale connection appears: every
\* session the reader created is the one it holds or has been closed, and
\* is_connected() is never true while the held session is closed or
\* absent.
C28_NoLeakNoStaleConnection ==
    /\ \A s \in Sessions : http[s].session = "open" => session = s
    /\ is_connected => (session # None /\ http[session].session = "open")

\* --------------------------------------------- claims: overlapping commands
\* C29: while join and play handlers interleave at their awaits, the bot
\* never has more than one voice session open: every voice client
\* channel.connect() returned is the one stored in the bot or has been
\* disconnected.
C29_OneVoiceSession ==
    \A c \in Clients : clients[c].connected => voice_client = c

\* C30: while a play handler interleaves with a leave handler, play never
\* uses an absent voice client: when play, having joined, is about to read
\* self._voice_client for its is_playing() check, the stored client is not
\* None, and every play command ends by sending a response, not by an
\* unhandled error.
C30_PlayNeverUsesAbsentClient ==
    /\ \A t \in Tasks : tasks[t].pc = "play_joined" => voice_client # None
    /\ Handled("play") => last.outcome # "error"

====
